---- MODULE Spec2Model ----
(***************************************************************************)
(* A model of the orbital state and collision-avoidance core of            *)
(* Sat-trajectory: the TLE encoder and the fixed-column decoders, the risk *)
(* tiers, the Orbit Control Panel's maneuver, the maneuver history kept by *)
(* App, and the simulation clock.                                          *)
(*                                                                         *)
(* Numbers.  A JavaScript number is a record [k, v]: k = "fin" with v an   *)
(* integer in a fixed-point unit stated for each quantity, or k = "nan",   *)
(* or k = "inf".  Angles are in 1e-5 degree, eccentricity in 1e-7, mean    *)
(* motion in 1e-8 rev/day, lengths in metres.                              *)
(* Strings.  A string is a sequence of one-character strings.              *)
(***************************************************************************)
EXTENDS Integers, Sequences, FiniteSets, TLC

VARIABLES
  tlePhase,   \* "in" | "encoded" | "decoded": position of the encode/decode run
  tleIn,      \* the element set handed to createTLEFromKeplerian
  tleOut,     \* the two lines it returned
  tleDec      \* what a fixed-column decoder read back from line 2

tleVars == <<tlePhase, tleIn, tleOut, tleDec>>

VARIABLES
  riskIn,     \* the arguments of assessRiskLevel: [d: tenths of a km, t: minutes]
  riskOut     \* the tier it returned

riskVars == <<riskIn, riskOut>>

VARIABLES
  wallNow,        \* Date.now() / performance.now(), in seconds
  simMinutes,     \* App state: the time offset, in half minutes
  simRunning,     \* App state
  simSpeed,       \* App state: half minutes of offset per second
  simDate,        \* the useMemo value of App.tsx 888, in seconds
  raf,            \* the animation frame requested by the playback effect, with
                  \* the simSpeed and the `last` its closure holds; None if none
  effectPending,  \* the playback effect's dependencies changed in an update
                  \* made outside an event handler; its cleanup has not run yet
  jumped,         \* history: jumpToNow ran, and no play or offset change since
  lastTick,       \* history: what the last tick did
  lastRead        \* history: the instant last used to position satellites

clockVars == <<wallNow, simMinutes, simRunning, simSpeed, simDate, raf, effectPending,
               jumped, lastTick, lastRead>>

VARIABLES
  satellites,       \* App state: sequence of [id, noradId, tle1, tle2]; noradId 0
                    \* stands for a catalog number that is not a number ('CUSTOM')
  userOrbits,       \* App state: sequence of [id, tle1, tle2, color], the lines
                    \* the orbit path was generated from
  orbitControl,     \* None, or the open panel: orbitControlSatellite and the
                    \* panel's adjustments (its elements are what its effect
                    \* read from that satellite: PanelElements)
  maneuverHistory,  \* App state: newest first
  applied           \* history: one record for every run of applyManeuver

appVars == <<satellites, userOrbits, orbitControl, maneuverHistory, applied>>

VARIABLES
  addError,   \* App state: None (null) or the message shown under the Add form
  adding,     \* App state: a load is in flight, the Add button is disabled
  lastLoad    \* history: the last run of a handler that loads satellites

loadVars == <<addError, adding, lastLoad>>

VARIABLES
  callIn,     \* the arguments of the utility call under examination, None before
  callOut     \* what the call returned, None before it ran

callVars == <<callIn, callOut>>

VARIABLES
  cdmData,                 \* useConjunctions' data: the conjunction records
  autoAlertShown,          \* App state: the risk ids already alerted about
  detectedCollisionRisks,  \* App state: the CollisionRisk records
  detectPending            \* the auto-detect effect is due: a dependency changed

detectVars == <<cdmData, autoAlertShown, detectedCollisionRisks, detectPending>>

VARIABLES
  aiSuggestedManeuver,        \* window.__aiSuggestedManeuver, None when not set
  orbitControlCollisionRisk,  \* App state: the risk handed to the open panel
  timers,                     \* the setTimeout callbacks not yet run, each with
                              \* the satellites its closure captured
  prefilled                   \* what the open panel's effect took its adjustments
                              \* from: None, or the call the suggestion came with

panelVars == <<aiSuggestedManeuver, orbitControlCollisionRisk, timers, prefilled>>

VARIABLES
  demoMode,             \* App state: the demo mode switch
  spaceWeatherThreats,  \* App state: the space-weather threats shown
  demoTimers,           \* demoCollisionTimer and demoWeatherTimer while they are
                        \* set: which one, the seconds left, the satellites captured
  positionDue           \* seconds until the position interval runs again

demoVars == <<demoMode, spaceWeatherThreats, demoTimers, positionDue>>

VARIABLES
  lastStateRef,    \* AssistantPanel: the key of the threat last asked about,
                   \* <<>> for the empty string
  hasEmergency,    \* AssistantPanel state
  collapsePending, \* the 3 s timer that collapses the assistant is set
  requests         \* the keys of the automatic requests made since the threats
                   \* last changed, in order

assistVars == <<lastStateRef, hasEmergency, collapsePending, requests>>

vars == <<tleVars, riskVars, clockVars, appVars, loadVars, callVars, detectVars,
          panelVars, demoVars, assistVars>>

\* What an action of one part of the model leaves alone
notTle == <<riskVars, clockVars, appVars, loadVars, callVars, detectVars,
  panelVars, demoVars, assistVars>>
notRisk == <<tleVars, clockVars, appVars, loadVars, callVars, detectVars,
  panelVars, demoVars, assistVars>>
notClock == <<tleVars, riskVars, appVars, loadVars, callVars, detectVars,
  panelVars, demoVars, assistVars>>
notApp == <<tleVars, riskVars, clockVars, loadVars, callVars, detectVars,
  panelVars, demoVars, assistVars>>
notLoad == <<tleVars, riskVars, orbitControl, maneuverHistory, applied, callVars,
             detectVars, demoVars, assistVars>>
notCall == <<tleVars, riskVars, clockVars, appVars, loadVars, detectVars,
  panelVars, demoVars, assistVars>>
notDetect == <<tleVars, riskVars, clockVars, appVars, loadVars, callVars,
  panelVars, demoVars, assistVars>>

None == [k |-> "none"]

(***************************************************************************)
(* JavaScript numbers                                                      *)
(***************************************************************************)
Fin(v) == [k |-> "fin", v |-> v]
NaN == [k |-> "nan", v |-> 0]
Infinity == [k |-> "inf", v |-> 0]
IsFinite(x) == x.k = "fin"

Abs(n) == IF n < 0 THEN -n ELSE n
Min(a, b) == IF a < b THEN a ELSE b
Max(a, b) == IF a > b THEN a ELSE b

RECURSIVE Pow10(_)
Pow10(k) == IF k = 0 THEN 1 ELSE 10 * Pow10(k - 1)

(***************************************************************************)
(* Strings                                                                 *)
(***************************************************************************)
DigitChars == <<"0", "1", "2", "3", "4", "5", "6", "7", "8", "9">>
DigitChar(d) == DigitChars[d + 1]
IsDigit(c) == c \in {"0", "1", "2", "3", "4", "5", "6", "7", "8", "9"}
DigitVal(c) == CHOOSE d \in 0..9 : DigitChars[d + 1] = c

\* Number.prototype.toString of a non-negative integer
RECURSIVE Digits(_)
Digits(n) == IF n < 10 THEN <<DigitChar(n)>>
             ELSE Append(Digits(n \div 10), DigitChar(n % 10))

Repeat(c, k) == [i \in 1..k |-> c]

\* String.prototype.padStart: never truncates
PadStart(s, w, c) == IF Len(s) >= w THEN s ELSE Repeat(c, w - Len(s)) \o s

padRight(s, w) == IF Len(s) >= w THEN s ELSE s \o Repeat(" ", w - Len(s))

\* String.prototype.substring(a, b), 0-based, b exclusive, clamped to the length
Substring(s, a, b) == SubSeq(s, Min(a, Len(s)) + 1, Min(b, Len(s)))

StartsWith(s, pre) == Len(s) >= Len(pre) /\ SubSeq(s, 1, Len(pre)) = pre

RECURSIVE SkipSpaces(_)
SkipSpaces(s) == IF Len(s) > 0 /\ Head(s) = " " THEN SkipSpaces(Tail(s)) ELSE s

RECURSIVE DropTrailingSpaces(_)
DropTrailingSpaces(s) ==
  IF Len(s) > 0 /\ s[Len(s)] = " " THEN DropTrailingSpaces(SubSeq(s, 1, Len(s) - 1)) ELSE s

\* String.prototype.trim
Trim(s) == DropTrailingSpaces(SkipSpaces(s))

RECURSIVE TakeDigits(_)
TakeDigits(s) == IF Len(s) > 0 /\ IsDigit(Head(s)) THEN <<Head(s)>> \o TakeDigits(Tail(s))
                 ELSE <<>>

RECURSIVE DigitsValue(_)
DigitsValue(ds) == IF Len(ds) = 0 THEN 0
                   ELSE DigitsValue(SubSeq(ds, 1, Len(ds) - 1)) * 10 + DigitVal(ds[Len(ds)])

InfinityChars == <<"I", "n", "f", "i", "n", "i", "t", "y">>
NaNChars == <<"N", "a", "N">>

\* Number.prototype.toFixed(d) of a number held in units of 10^-p: rounds to d
\* decimals, keeps the sign, and prints NaN and Infinity by name.
ToFixed(x, p, d) ==
  IF x.k = "nan" THEN NaNChars
  ELSE IF x.k = "inf" THEN InfinityChars
  ELSE LET mag == Abs(x.v)
           r == IF p > d THEN (mag + Pow10(p - d) \div 2) \div Pow10(p - d)
                ELSE mag * Pow10(d - p)
           body == Digits(r \div Pow10(d)) \o <<".">> \o PadStart(Digits(r % Pow10(d)), d, "0")
       IN IF x.v < 0 THEN <<"-">> \o body ELSE body

\* parseFloat, its result in units of 10^-p: leading blanks are skipped, then a
\* sign, digits, a point and digits are read up to the first other character;
\* NaN when no digit was read.  Digits beyond the p-th decimal are dropped.
ParseFloat(str, p) ==
  LET s0 == SkipSpaces(str)
      neg == Len(s0) > 0 /\ Head(s0) = "-"
      s1 == IF Len(s0) > 0 /\ Head(s0) \in {"-", "+"} THEN Tail(s0) ELSE s0
      ip == TakeDigits(s1)
      s2 == SubSeq(s1, Len(ip) + 1, Len(s1))
      fp == IF Len(s2) > 0 /\ Head(s2) = "." THEN TakeDigits(Tail(s2)) ELSE <<>>
      fpP == SubSeq(fp \o Repeat("0", p), 1, p)
      mag == DigitsValue(ip) * Pow10(p) + DigitsValue(fpP)
  IN IF StartsWith(s1, InfinityChars) THEN Infinity
     ELSE IF Len(ip) = 0 /\ Len(fp) = 0 THEN NaN
     ELSE Fin(IF neg THEN -mag ELSE mag)

(***************************************************************************)
(* The TLE encoder (utils/orbit.ts)                                        *)
(***************************************************************************)
\* A Date is the number of seconds since Date.UTC(ClockYear, 0, 0).
ClockYear == 2024
NoEpoch == 0 - 1

tleChecksum(line) ==
  LET val(c) == IF IsDigit(c) THEN DigitVal(c) ELSE IF c = "-" THEN 1 ELSE 0
      sum[i \in 0..68] == IF i = 0 THEN 0
                          ELSE IF i <= Len(line) THEN sum[i - 1] + val(line[i]) ELSE sum[i - 1]
  IN sum[68] % 10

formatEpochYYDDD(date) ==
  LET year == ClockYear % 100
      day == date \div 86400
      \* ((diff % 86400000) / 86400000).toFixed(8).slice(2)
      \* 1e8 / 86400 = 1157 + 11/27
      sec == date % 86400
      frac8 == (sec * 1157 + (sec * 22 + 27) \div 54) % Pow10(8)
  IN PadStart(Digits(year), 2, "0") \o PadStart(Digits(day), 3, "0") \o <<".">>
       \o PadStart(Digits(frac8), 8, "0")

Line1Head == <<"U", " ", "0", "0", "0", "0", "0", "A", " ", " ", " ">>
Line1Tail == <<" ", " ", ".", "0", "0", "0", "0", "0", "0", "0", "0", " ", " ", "0", "0", "0", "0", "0", "-", "0", " ", " ", "0", "0", "0", "0", "0", "-", "0", " ", "0", " ", " ", "9", "9", "9">>

\* elements: [inclinationDeg, raanDeg, eccentricity, argumentOfPerigeeDeg,
\* meanAnomalyDeg, meanMotionRevPerDay, epoch, noradId]; noradId 0 and epoch
\* NoEpoch stand for undefined.  rnd is Math.floor(Math.random() * 9) and now
\* is new Date(), both read only when the field is undefined.
createTLEFromKeplerian(elements, rnd, now) ==
  LET norad == IF elements.noradId > 0 THEN elements.noradId ELSE 99990 + rnd
      epoch == IF elements.epoch # NoEpoch THEN elements.epoch ELSE now
      epochStr == formatEpochYYDDD(epoch)
      i == PadStart(ToFixed(elements.inclinationDeg, 5, 4), 8, " ")
      raan == PadStart(ToFixed(elements.raanDeg, 5, 4), 8, " ")
      ecc == IF IsFinite(elements.eccentricity)
             THEN PadStart(Digits(Abs(elements.eccentricity.v)), 7, "0")
             ELSE PadStart(ToFixed(elements.eccentricity, 7, 0), 7, "0")
      argPer == PadStart(ToFixed(elements.argumentOfPerigeeDeg, 5, 4), 8, " ")
      meanAnom == PadStart(ToFixed(elements.meanAnomalyDeg, 5, 4), 8, " ")
      meanMotion == PadStart(ToFixed(elements.meanMotionRevPerDay, 8, 8), 11, " ")
      revNum == PadStart(<<"0">>, 5, " ")
      noradStr == PadStart(Digits(norad), 5, "0")
      l1 == padRight(<<"1", " ">> \o noradStr \o Line1Head \o epochStr \o Line1Tail, 68)
      l2 == padRight(<<"2", " ">> \o noradStr \o i \o raan \o <<" ">> \o ecc \o <<" ">>
                       \o argPer \o <<" ">> \o meanAnom \o <<" ">> \o meanMotion \o revNum, 68)
  IN [line1 |-> Append(l1, DigitChar(tleChecksum(l1))),
      line2 |-> Append(l2, DigitChar(tleChecksum(l2)))]

(***************************************************************************)
(* The fixed-column decoders                                               *)
(***************************************************************************)
\* OrbitControlPanel's effect: every field is trimmed before parseFloat
PanelDecode(tle2) ==
  [inclinationDeg |-> ParseFloat(Trim(Substring(tle2, 8, 16)), 5),
   raanDeg |-> ParseFloat(Trim(Substring(tle2, 17, 25)), 5),
   eccentricity |-> ParseFloat(<<"0", ".">> \o Trim(Substring(tle2, 26, 33)), 7),
   argPerigeeDeg |-> ParseFloat(Trim(Substring(tle2, 34, 42)), 5),
   meanAnomalyDeg |-> ParseFloat(Trim(Substring(tle2, 43, 51)), 5),
   meanMotion |-> ParseFloat(Trim(Substring(tle2, 52, 63)), 8)]

\* App's parseFromTLE: the same columns, untrimmed
parseFromTLE(tle2) ==
  [inclinationDeg |-> ParseFloat(Substring(tle2, 8, 16), 5),
   raanDeg |-> ParseFloat(Substring(tle2, 17, 25), 5),
   eccentricity |-> ParseFloat(<<"0", ".">> \o Substring(tle2, 26, 33), 7),
   argPerigeeDeg |-> ParseFloat(Substring(tle2, 34, 42), 5),
   meanAnomalyDeg |-> ParseFloat(Substring(tle2, 43, 51), 5),
   meanMotion |-> ParseFloat(Substring(tle2, 52, 63), 8)]

(***************************************************************************)
(* Encode/decode runs: the inputs are drawn in Init                        *)
(***************************************************************************)
InclinationSet == {0, 5164400, 9905340, 18000000}
RaanSet == {0, 512340, 3174920, 12345670, 35999990}
EccentricitySet == {0, 9013, 7000000, 9999999, 15000000}
ArgPerigeeSet == {0, 7750700, 27000000}
MeanAnomalySet == {0, 28264640}
MeanMotionSet == {0, 100273790, 1550008891}
NoradSet == {0, 25544, 123456}
MaxClock == 2
RandomSet == {0, 8}

ElementSets ==
  [inclinationDeg : {Fin(v) : v \in InclinationSet},
   raanDeg : {Fin(v) : v \in RaanSet} \cup {NaN},
   eccentricity : {Fin(v) : v \in EccentricitySet},
   argumentOfPerigeeDeg : {Fin(v) : v \in ArgPerigeeSet},
   meanAnomalyDeg : {Fin(v) : v \in MeanAnomalySet},
   meanMotionRevPerDay : {Fin(v) : v \in MeanMotionSet},
   epoch : {NoEpoch},
   noradId : NoradSet]

TleInit ==
  /\ tlePhase = "in" /\ tleIn \in ElementSets /\ tleOut = None /\ tleDec = None
  /\ riskIn = None /\ riskOut = None
  /\ wallNow = 0 /\ simMinutes = 0 /\ simRunning = FALSE /\ simSpeed = 10 /\ simDate = 0
  /\ raf = None /\ effectPending = FALSE /\ jumped = FALSE /\ lastTick = None
  /\ lastRead = None
  /\ satellites = <<>> /\ userOrbits = <<>> /\ orbitControl = None
  /\ maneuverHistory = <<>> /\ applied = <<>>
  /\ addError = None /\ adding = FALSE /\ lastLoad = None
  /\ cdmData = <<>> /\ autoAlertShown = {} /\ detectedCollisionRisks = <<>>
  /\ detectPending = FALSE
  /\ aiSuggestedManeuver = None /\ orbitControlCollisionRisk = None /\ timers = {}
  /\ prefilled = None
  /\ demoMode = FALSE /\ spaceWeatherThreats = <<>> /\ demoTimers = {}
  /\ positionDue = 0
  /\ lastStateRef = <<>> /\ hasEmergency = FALSE /\ requests = <<>>
  /\ collapsePending = FALSE
  /\ callIn = None /\ callOut = None

Encode ==
  /\ tlePhase = "in"
  /\ \E rnd \in RandomSet, now \in 0..MaxClock :
       tleOut' = createTLEFromKeplerian(tleIn, rnd, 25920000 + now)
  /\ tlePhase' = "encoded"
  /\ UNCHANGED <<tleIn, tleDec, notTle>>

\* No element set: the decoder returned early
Failed == [k |-> "failed"]

\* if (!satellite || !satellite.tle2) return
DecodeInPanel ==
  /\ tlePhase = "encoded"
  /\ tleDec' = IF Len(tleOut.line2) = 0 THEN Failed ELSE PanelDecode(tleOut.line2)
  /\ tlePhase' = "decoded"
  /\ UNCHANGED <<tleIn, tleOut, notTle>>

\* if (!tle1 || !tle2) return null
DecodeInApp ==
  /\ tlePhase = "encoded"
  /\ tleDec' = IF Len(tleOut.line1) = 0 \/ Len(tleOut.line2) = 0 THEN Failed
              ELSE parseFromTLE(tleOut.line2)
  /\ tlePhase' = "decoded"
  /\ UNCHANGED <<tleIn, tleOut, notTle>>

\* generateOrbitPath, up to the call of twoline2satrec: the lines are handed to
\* the SGP4 library unless the validation returns the empty path
ValidateInOrbitPath ==
  /\ tlePhase = "encoded"
  /\ tleDec' =
       IF Len(tleOut.line1) = 0 \/ Len(tleOut.line2) = 0 THEN Failed
       ELSE IF Len(tleOut.line1) < 69 \/ Len(tleOut.line2) < 69 THEN Failed
       ELSE IF ~StartsWith(Trim(tleOut.line1), <<"1", " ">>)
               \/ ~StartsWith(Trim(tleOut.line2), <<"2", " ">>) THEN Failed
       ELSE [k |-> "satrec", line1 |-> Trim(tleOut.line1), line2 |-> Trim(tleOut.line2)]
  /\ tlePhase' = "decoded"
  /\ UNCHANGED <<tleIn, tleOut, notTle>>

TleNext == Encode \/ DecodeInPanel \/ DecodeInApp

(***************************************************************************)
(* Risk tiers (utils/orbit.ts).  Miss distance in tenths of a kilometre,   *)
(* time to TCA in minutes.                                                 *)
(***************************************************************************)
assessRiskLevel_le(missDistance, timeToTcaMinutes) ==
  IF timeToTcaMinutes < 60 THEN
    IF missDistance <= 10 THEN "CRITICAL"
    ELSE IF missDistance < 50 THEN "HIGH"
    ELSE IF missDistance < 100 THEN "MODERATE"
    ELSE "LOW"
  ELSE IF timeToTcaMinutes < 1440 THEN
    IF missDistance < 5 THEN "CRITICAL"
    ELSE IF missDistance < 20 THEN "HIGH"
    ELSE IF missDistance < 50 THEN "MODERATE"
    ELSE "LOW"
  ELSE
    IF missDistance < 5 THEN "HIGH"
    ELSE IF missDistance < 10 THEN "MODERATE"
    ELSE "LOW"

assessRiskLevel_swapped(missDistance, timeToTcaMinutes) ==
  IF timeToTcaMinutes < 60 THEN
    IF missDistance < 10 THEN "CRITICAL"
    ELSE IF missDistance < 50 THEN "HIGH"
    ELSE IF missDistance < 100 THEN "MODERATE"
    ELSE "LOW"
  ELSE IF timeToTcaMinutes < 1440 THEN
    IF missDistance < 5 THEN "CRITICAL"
    ELSE IF missDistance < 20 THEN "MODERATE"
    ELSE IF missDistance < 50 THEN "HIGH"
    ELSE "LOW"
  ELSE
    IF missDistance < 5 THEN "HIGH"
    ELSE IF missDistance < 10 THEN "MODERATE"
    ELSE "LOW"

assessRiskLevel(missDistance, timeToTcaMinutes) ==
  IF timeToTcaMinutes < 60 THEN
    IF missDistance < 10 THEN "CRITICAL"
    ELSE IF missDistance < 50 THEN "HIGH"
    ELSE IF missDistance < 100 THEN "MODERATE"
    ELSE "LOW"
  ELSE IF timeToTcaMinutes < 1440 THEN
    IF missDistance < 5 THEN "CRITICAL"
    ELSE IF missDistance < 20 THEN "HIGH"
    ELSE IF missDistance < 50 THEN "MODERATE"
    ELSE "LOW"
  ELSE
    IF missDistance < 5 THEN "HIGH"
    ELSE IF missDistance < 10 THEN "MODERATE"
    ELSE "LOW"

MaxMissTenths == 104
MaxMinutes == 1500
MissDistances == 0..MaxMissTenths
TimesToTca == {t \in 0..MaxMinutes : t % 60 \in {0, 1, 30, 59}}

RiskInit ==
  /\ riskIn \in [d : MissDistances, t : TimesToTca] /\ riskOut = None
  /\ tlePhase = "idle" /\ tleIn = None /\ tleOut = None /\ tleDec = None
  /\ wallNow = 0 /\ simMinutes = 0 /\ simRunning = FALSE /\ simSpeed = 10 /\ simDate = 0
  /\ raf = None /\ effectPending = FALSE /\ jumped = FALSE /\ lastTick = None
  /\ lastRead = None
  /\ satellites = <<>> /\ userOrbits = <<>> /\ orbitControl = None
  /\ maneuverHistory = <<>> /\ applied = <<>>
  /\ addError = None /\ adding = FALSE /\ lastLoad = None
  /\ cdmData = <<>> /\ autoAlertShown = {} /\ detectedCollisionRisks = <<>>
  /\ detectPending = FALSE
  /\ aiSuggestedManeuver = None /\ orbitControlCollisionRisk = None /\ timers = {}
  /\ prefilled = None
  /\ demoMode = FALSE /\ spaceWeatherThreats = <<>> /\ demoTimers = {}
  /\ positionDue = 0
  /\ lastStateRef = <<>> /\ hasEmergency = FALSE /\ requests = <<>>
  /\ collapsePending = FALSE
  /\ callIn = None /\ callOut = None

AssessRisk ==
  /\ riskOut = None
  /\ riskOut' = [k |-> "risk", level |-> assessRiskLevel(riskIn.d, riskIn.t)]
  /\ UNCHANGED <<riskIn, notRisk>>

RiskNext == AssessRisk



(***************************************************************************)
(* Kepler's third law, as the panel and App use it:                        *)
(*   n = meanMotion * 2 PI / 86400,  a = Math.pow(mu / (n * n), 1 / 3)     *)
(*   meanMotion = Math.sqrt(mu / Math.pow(a, 3)) * 86400 / (2 PI)          *)
(* that is  a^3 * meanMotion^2 = mu * 86400^2 / (4 PI^2).  The products    *)
(* exceed a machine word, so they are formed on numbers written as         *)
(* sequences of base-10000 digits, least significant first.  A semi-major  *)
(* axis is kept to the metre and a mean motion to 1e-8 rev/day, both       *)
(* rounded down.                                                           *)
(***************************************************************************)
BigBase == 10000

RECURSIVE BigOf(_)
BigOf(n) == IF n < BigBase THEN <<n>> ELSE <<n % BigBase>> \o BigOf(n \div BigBase)

\* The sum of x[i] * y[k + 1 - i] for i in lo..hi
RECURSIVE BigColumn(_, _, _, _, _)
BigColumn(x, y, k, lo, hi) ==
  IF lo > hi THEN 0 ELSE x[lo] * y[k + 1 - lo] + BigColumn(x, y, k, lo + 1, hi)

RECURSIVE BigCarry(_, _)
BigCarry(cols, c) ==
  IF Len(cols) = 0 THEN (IF c = 0 THEN <<>> ELSE BigOf(c))
  ELSE <<(Head(cols) + c) % BigBase>> \o BigCarry(Tail(cols), (Head(cols) + c) \div BigBase)

BigMul(x, y) ==
  BigCarry([k \in 1..(Len(x) + Len(y) - 1) |->
              BigColumn(x, y, k, Max(1, k + 1 - Len(y)), Min(Len(x), k))], 0)

RECURSIVE BigStrip(_)
BigStrip(x) == IF Len(x) > 0 /\ x[Len(x)] = 0 THEN BigStrip(SubSeq(x, 1, Len(x) - 1)) ELSE x

RECURSIVE BigLeSameLen(_, _)
BigLeSameLen(x, y) ==
  IF Len(x) = 0 THEN TRUE
  ELSE IF x[Len(x)] # y[Len(y)] THEN x[Len(x)] < y[Len(y)]
  ELSE BigLeSameLen(SubSeq(x, 1, Len(x) - 1), SubSeq(y, 1, Len(y) - 1))

BigLe(x, y) ==
  LET a == BigStrip(x)
      b == BigStrip(y)
  IN IF Len(a) # Len(b) THEN Len(a) < Len(b) ELSE BigLeSameLen(a, b)

\* mu * 86400^2 / (4 PI^2) with mu = 398600.4418 km^3/s^2, in m^3 (1e-8 rev/day)^2
KeplerConstant == <<5658, 4354, 525, 3795, 9011, 2707, 111, 6340, 7121, 753>>

BigCube(n) == BigMul(BigMul(BigOf(n), BigOf(n)), BigOf(n))
BigSquare(n) == BigMul(BigOf(n), BigOf(n))

\* The largest representable length and mean motion
MaxNumber == 2000000000

\* The largest a in lo..hi with a^3 * meanMotion^2 <= KeplerConstant
RECURSIVE SemiMajorAxisSearch(_, _, _)
SemiMajorAxisSearch(meanMotionSquared, lo, hi) ==
  IF lo = hi THEN lo
  ELSE LET mid == lo + (hi - lo + 1) \div 2
       IN IF BigLe(BigMul(BigCube(mid), meanMotionSquared), KeplerConstant)
          THEN SemiMajorAxisSearch(meanMotionSquared, mid, hi)
          ELSE SemiMajorAxisSearch(meanMotionSquared, lo, mid - 1)

\* Math.pow(mu / (n * n), 1 / 3) for n = meanMotion * 2 PI / 86400
SemiMajorAxisOf(meanMotion) ==
  IF meanMotion.k # "fin" THEN (IF meanMotion.k = "inf" THEN Fin(0) ELSE NaN)
  ELSE IF meanMotion.v = 0 THEN Infinity
  ELSE Fin(SemiMajorAxisSearch(BigSquare(Abs(meanMotion.v)), 0, MaxNumber))

\* The largest n in lo..hi with a^3 * n^2 <= KeplerConstant
RECURSIVE MeanMotionSearch(_, _, _)
MeanMotionSearch(aCubed, lo, hi) ==
  IF lo = hi THEN lo
  ELSE LET mid == lo + (hi - lo + 1) \div 2
       IN IF BigLe(BigMul(aCubed, BigSquare(mid)), KeplerConstant)
          THEN MeanMotionSearch(aCubed, mid, hi)
          ELSE MeanMotionSearch(aCubed, lo, mid - 1)

\* Math.sqrt(mu / Math.pow(a, 3)) * 86400 / (2 PI): the square root of a
\* negative number is NaN, mu / 0 is Infinity
MeanMotionOf(a) ==
  IF a.k # "fin" THEN (IF a.k = "inf" THEN Fin(0) ELSE NaN)
  ELSE IF a.v < 0 THEN NaN
  ELSE IF a.v = 0 THEN Infinity
  ELSE Fin(MeanMotionSearch(BigCube(a.v), 0, MaxNumber))

(***************************************************************************)
(* The simulation clock (App.tsx).  The wall clock counts seconds; the     *)
(* offset simMinutes counts half minutes, simSpeed half minutes per        *)
(* second (the slider's step), so simMinutes * 60000 ms is simMinutes * 30 *)
(* seconds.                                                                *)
(*                                                                         *)
(* React 18 (createRoot): an update made in a click or change handler is   *)
(* rendered, and its passive effects run, before the handler's task ends.  *)
(* An update made elsewhere (after an await, in a timer) is rendered in a  *)
(* later task and its passive effects in a task after that: an animation   *)
(* frame already requested can run in between.                             *)
(***************************************************************************)
MaxWall == 3
SpeedSet == {1, 10}
OffsetSet == {0 - 4, 0, 6}

\* useMemo(() => new Date(Date.now() + simMinutes * 60000), [simMinutes])
SimDateMemo(minutes) == IF minutes # simMinutes THEN wallNow + minutes * 30 ELSE simDate

\* eciLiveSatellites, autoOrbitPaths: the instant the memo uses when it runs
ViewInstant(running, minutes, date) ==
  [k |-> "read",
   when |-> IF running \/ minutes # 0 THEN date ELSE wallNow,
   wall |-> wallNow, offset |-> minutes]

\* The playback effect: its cleanup cancels the requested frame, and it
\* requests one again, with the current simSpeed, if the clock is running.
PlaybackEffect(running, speed) ==
  IF running THEN [k |-> "raf", speed |-> speed, last |-> wallNow] ELSE None

\* The memos of a render run again only if one of their dependencies changed
\* (satellites is one of them)
Render(running, minutes, satellitesChanged) ==
  /\ simDate' = SimDateMemo(minutes)
  /\ lastRead' = IF satellitesChanged \/ running # simRunning \/ minutes # simMinutes
                 THEN ViewInstant(running, minutes, SimDateMemo(minutes)) ELSE lastRead

ClockInit ==
  /\ wallNow = 0 /\ simMinutes = 0 /\ simRunning = FALSE /\ simSpeed = 10 /\ simDate = 0
  /\ raf = None /\ effectPending = FALSE /\ jumped = FALSE /\ lastTick = None
  /\ lastRead = None
  /\ satellites = <<>> /\ userOrbits = <<>> /\ orbitControl = None
  /\ maneuverHistory = <<>> /\ applied = <<>>
  /\ addError = None /\ adding = FALSE /\ lastLoad = None
  /\ cdmData = <<>> /\ autoAlertShown = {} /\ detectedCollisionRisks = <<>>
  /\ detectPending = FALSE
  /\ aiSuggestedManeuver = None /\ orbitControlCollisionRisk = None /\ timers = {}
  /\ prefilled = None
  /\ demoMode = FALSE /\ spaceWeatherThreats = <<>> /\ demoTimers = {}
  /\ positionDue = 0
  /\ lastStateRef = <<>> /\ hasEmergency = FALSE /\ requests = <<>>
  /\ collapsePending = FALSE
  /\ callIn = None /\ callOut = None
  /\ tlePhase = "idle" /\ tleIn = None /\ tleOut = None /\ tleDec = None
  /\ riskIn = None /\ riskOut = None

\* The Play / Pause button
TogglePlay ==
  /\ simRunning' = ~simRunning
  /\ raf' = PlaybackEffect(~simRunning, simSpeed)
  /\ effectPending' = FALSE
  /\ Render(~simRunning, simMinutes, FALSE)
  /\ jumped' = IF ~simRunning THEN FALSE ELSE jumped
  /\ UNCHANGED <<wallNow, simMinutes, simSpeed, lastTick, notClock>>

\* The speed slider
SetSpeed ==
  /\ \E s \in SpeedSet :
       /\ s # simSpeed
       /\ simSpeed' = s
       /\ raf' = PlaybackEffect(simRunning, s)
  /\ effectPending' = FALSE
  /\ UNCHANGED <<wallNow, simMinutes, simRunning, simDate, jumped, lastTick, lastRead,
                 notClock>>

\* The time offset slider
SetOffset ==
  /\ \E m \in OffsetSet :
       /\ m # simMinutes
       /\ simMinutes' = m
       /\ Render(simRunning, m, FALSE)
  /\ raf' = IF effectPending THEN PlaybackEffect(simRunning, simSpeed) ELSE raf
  /\ effectPending' = FALSE
  /\ jumped' = FALSE
  /\ UNCHANGED <<wallNow, simRunning, simSpeed, lastTick, notClock>>

\* The Now button
NowButton ==
  /\ simRunning' = FALSE
  /\ simSpeed' = 10
  /\ simMinutes' = 0
  /\ Render(FALSE, 0, FALSE)
  /\ raf' = None
  /\ effectPending' = FALSE
  /\ jumped' = TRUE
  /\ UNCHANGED <<wallNow, lastTick, notClock>>

\* executeAssistantPlan, command jumpToNow: from the Execute button (an event
\* handler) or, with auto-execute on, after the assistant's reply was awaited
AssistantJumpToNow ==
  /\ simRunning' = FALSE
  /\ simMinutes' = 0
  /\ Render(FALSE, 0, TRUE)
  /\ \E inHandler \in BOOLEAN :
       IF inHandler
       THEN raf' = None /\ effectPending' = FALSE
       ELSE raf' = raf /\ effectPending' = (effectPending \/ simRunning)
  /\ jumped' = TRUE
  /\ UNCHANGED <<wallNow, simSpeed, lastTick, notClock>>

\* executeAssistantPlan, command setSimMinutes
AssistantSetSimMinutes ==
  /\ \E m \in OffsetSet :
       /\ m # simMinutes
       /\ simMinutes' = m
       /\ Render(simRunning, m, FALSE)
  /\ jumped' = FALSE
  /\ UNCHANGED <<wallNow, simRunning, simSpeed, raf, effectPending, lastTick, notClock>>

\* handleConjunctionClick, after the TLEs were awaited: fast-forward to the
\* TCA and pause there
PauseAtTca ==
  /\ \E m \in OffsetSet :
       /\ simMinutes' = m
       /\ Render(FALSE, m, FALSE)
  /\ simRunning' = FALSE
  /\ effectPending' = (effectPending \/ simRunning)
  /\ jumped' = FALSE
  /\ UNCHANGED <<wallNow, simSpeed, raf, lastTick, notClock>>

\* The deferred run of the playback effect: cleanup, then the effect
FlushEffects ==
  /\ effectPending
  /\ raf' = PlaybackEffect(simRunning, simSpeed)
  /\ effectPending' = FALSE
  /\ UNCHANGED <<wallNow, simMinutes, simRunning, simSpeed, simDate, jumped, lastTick,
                 lastRead, notClock>>

\* tick, the requestAnimationFrame callback
Tick ==
  /\ raf # None
  /\ LET dtSec == Max(0, wallNow - raf.last)
         next == simMinutes + raf.speed * dtSec
     IN /\ simMinutes' = next
        /\ Render(simRunning, next, FALSE)
        /\ lastTick' = [k |-> "tick", running |-> simRunning, speed |-> simSpeed,
                        elapsed |-> wallNow - raf.last, before |-> simMinutes,
                        after |-> next]
  /\ raf' = [raf EXCEPT !.last = wallNow]
  /\ UNCHANGED <<wallNow, simRunning, simSpeed, effectPending, jumped, notClock>>

\* The 2 s interval that refreshes the satellites' positions: satellites
\* changes, and the memos that depend on it run again
PositionInterval ==
  /\ lastRead' = ViewInstant(simRunning, simMinutes, simDate)
  /\ UNCHANGED <<wallNow, simMinutes, simRunning, simSpeed, simDate, raf, effectPending,
                 jumped, lastTick, notClock>>

AdvanceWall ==
  /\ wallNow < MaxWall
  /\ wallNow' = wallNow + 1
  /\ UNCHANGED <<simMinutes, simRunning, simSpeed, simDate, raf, effectPending, jumped,
                 lastTick, lastRead, notClock>>

ClockNext ==
  \/ TogglePlay \/ SetSpeed \/ SetOffset \/ NowButton \/ AssistantJumpToNow
  \/ AssistantSetSimMinutes \/ PauseAtTca \/ FlushEffects \/ Tick \/ PositionInterval
  \/ AdvanceWall


(***************************************************************************)
(* Tracked satellites, the Orbit Control Panel and the maneuver history    *)
(***************************************************************************)
MaxManeuvers == 2
MaxEpoch == 1

FallbackIssLine1 ==
  <<"1", " ", "2", "5", "5", "4", "4", "U", " ", "9", "8", "0", "6", "7",
      "A", " ", " ", " ", "2", "4", "3", "0", "0", ".", "5", "4", "7", "9",
      "1", "6", "6", "7", " ", " ", ".", "0", "0", "0", "0", "4", "2", "3",
      "0", " ", " ", "0", "0", "0", "0", "0", "-", "0", " ", " ", "9", "9",
      "1", "8", "8", "-", "4", " ", "0", " ", " ", "9", "9", "9", "0">>

FallbackIssLine2 ==
  <<"2", " ", "2", "5", "5", "4", "4", " ", " ", "5", "1", ".", "6", "4",
      "4", "0", " ", " ", "3", "1", ".", "7", "4", "9", "2", " ", "0", "0",
      "0", "9", "0", "1", "3", " ", " ", "7", "7", ".", "5", "0", "7", "0",
      " ", "2", "8", "2", ".", "6", "4", "6", "4", " ", "1", "5", ".", "5",
      "0", "0", "0", "8", "8", "9", "1", " ", "9", "9", "1", "8", "8">>

FallbackHstLine1 ==
  <<"1", " ", "2", "0", "5", "8", "0", "U", " ", "9", "0", "0", "3", "7",
      "B", " ", " ", " ", "2", "4", "3", "0", "0", ".", "5", "0", "0", "0",
      "0", "0", "0", "0", " ", " ", ".", "0", "0", "0", "0", "0", "0", "0",
      "0", " ", " ", "0", "0", "0", "0", "0", "-", "0", " ", " ", "0", "0",
      "0", "0", "0", "-", "0", " ", "0", " ", " ", "9", "9", "9", "9">>

FallbackHstLine2 ==
  <<"2", " ", "2", "0", "5", "8", "0", " ", " ", "2", "8", ".", "4", "6",
      "9", "0", " ", " ", "8", "2", ".", "2", "0", "0", "0", " ", "0", "0",
      "0", "2", "8", "3", "0", " ", " ", " ", "0", ".", "0", "0", "0", "0",
      " ", " ", " ", "0", ".", "0", "0", "0", "0", " ", "1", "4", ".", "2",
      "3", "3", "3", "3", "3", "3", "3", " ", "9", "9", "9", "9", "9">>

FallbackStarlinkLine1 ==
  <<"1", " ", "4", "4", "7", "1", "3", "U", " ", "1", "9", "0", "7", "4",
      "A", " ", " ", " ", "2", "4", "3", "0", "0", ".", "5", "0", "0", "0",
      "0", "0", "0", "0", " ", " ", ".", "0", "0", "0", "0", "1", "2", "3",
      "4", " ", " ", "0", "0", "0", "0", "0", "-", "0", " ", " ", "1", "2",
      "3", "4", "5", "-", "3", " ", "0", " ", " ", "9", "9", "9", "8">>

FallbackStarlinkLine2 ==
  <<"2", " ", "4", "4", "7", "1", "3", " ", " ", "5", "3", ".", "0", "5",
      "3", "4", " ", "1", "2", "3", ".", "4", "5", "6", "7", " ", "0", "0",
      "0", "1", "2", "3", "4", " ", " ", "8", "9", ".", "1", "2", "3", "4",
      " ", "2", "7", "0", ".", "9", "8", "7", "6", " ", "1", "5", ".", "0",
      "6", "4", "9", "2", "3", "4", "5", "1", "2", "3", "4", "5", "6">>

FallbackNoaa18Line1 ==
  <<"1", " ", "2", "8", "6", "5", "4", "U", " ", "0", "5", "0", "1", "8",
      "A", " ", " ", " ", "2", "4", "3", "0", "0", ".", "5", "0", "0", "0",
      "0", "0", "0", "0", " ", " ", ".", "0", "0", "0", "0", "0", "1", "2",
      "3", " ", " ", "0", "0", "0", "0", "0", "-", "0", " ", " ", "1", "2",
      "3", "4", "5", "-", "4", " ", "0", " ", " ", "9", "9", "9", "7">>

FallbackNoaa18Line2 ==
  <<"2", " ", "2", "8", "6", "5", "4", " ", " ", "9", "9", ".", "0", "5",
      "3", "4", " ", " ", "1", "2", ".", "3", "4", "5", "6", " ", "0", "0",
      "1", "2", "3", "4", "5", " ", " ", "2", "3", ".", "4", "5", "6", "7",
      " ", "3", "3", "6", ".", "6", "5", "4", "3", " ", "1", "4", ".", "1",
      "2", "3", "4", "5", "6", "7", "8", "1", "2", "3", "4", "5", "6">>

EccentricLine1 ==
  <<"1", " ", "1", "1", "1", "1", "1", "U", " ", "8", "0", "0", "0", "1",
      "A", " ", " ", " ", "2", "4", "3", "0", "0", ".", "5", "0", "0", "0",
      "0", "0", "0", "0", " ", " ", ".", "0", "0", "0", "0", "0", "0", "0",
      "0", " ", " ", "0", "0", "0", "0", "0", "-", "0", " ", " ", "0", "0",
      "0", "0", "0", "-", "0", " ", "0", " ", " ", "9", "9", "9", "8">>

EccentricLine2 ==
  <<"2", " ", "1", "1", "1", "1", "1", " ", " ", "6", "3", ".", "4", "0",
      "0", "0", " ", "1", "0", "0", ".", "0", "0", "0", "0", " ", "9", "5",
      "0", "0", "0", "0", "0", " ", "2", "7", "0", ".", "0", "0", "0", "0",
      " ", " ", " ", "0", ".", "0", "0", "0", "0", " ", " ", "0", ".", "1",
      "8", "0", "0", "0", "0", "0", "0", " ", " ", " ", "1", "0", "4">>

Satellite(norad, line1, line2) ==
  [id |-> "sat_" \o ToString(norad), noradId |-> norad, tle1 |-> line1, tle2 |-> line2]

\* The built-in TLEs the mount effect seeds satellites with
FallbackSatellites ==
  <<Satellite(25544, FallbackIssLine1, FallbackIssLine2),
    Satellite(20580, FallbackHstLine1, FallbackHstLine2),
    Satellite(44713, FallbackStarlinkLine1, FallbackStarlinkLine2),
    Satellite(28654, FallbackNoaa18Line1, FallbackNoaa18Line2)>>

\* What /api/tle/satellite/<noradId> answers with
Catalog ==
  {Satellite(11111, EccentricLine1, EccentricLine2)}

\* The satellites the operator opens the panel for, or removes
OperatedIds == {"sat_25544", "sat_11111"}

\* new Date()
DateNow == 300 * 86400 + wallNow

HasId(sats, id) == \E i \in 1..Len(sats) : sats[i].id = id

\* Array.prototype.find(s => s.id === id)
FindById(sats, id) ==
  sats[CHOOSE i \in 1..Len(sats) : sats[i].id = id /\ \A j \in 1..(i - 1) : sats[j].id # id]

WithoutId(seq, id) == SelectSeq(seq, LAMBDA e : e.id # id)

\* generateOrbitPath(line1, line2, ...) and its colour
Orbit(id, line1, line2, color) ==
  [id |-> id, tle1 |-> line1, tle2 |-> line2, color |-> color]

\* The state once the mount effect has seeded the built-in TLEs and the
\* initial load has settled without live data
AppInit ==
  /\ satellites = FallbackSatellites /\ userOrbits = <<>>
  /\ orbitControl = None /\ maneuverHistory = <<>> /\ applied = <<>>
  /\ addError = None /\ adding = FALSE /\ lastLoad = None
  /\ cdmData = <<>> /\ autoAlertShown = {} /\ detectedCollisionRisks = <<>>
  /\ detectPending = FALSE
  /\ aiSuggestedManeuver = None /\ orbitControlCollisionRisk = None /\ timers = {}
  /\ prefilled = None
  /\ demoMode = FALSE /\ spaceWeatherThreats = <<>> /\ demoTimers = {}
  /\ positionDue = 0
  /\ lastStateRef = <<>> /\ hasEmergency = FALSE /\ requests = <<>>
  /\ collapsePending = FALSE
  /\ callIn = None /\ callOut = None
  /\ wallNow = 0 /\ simMinutes = 0 /\ simRunning = FALSE /\ simSpeed = 10 /\ simDate = 0
  /\ raf = None /\ effectPending = FALSE /\ jumped = FALSE /\ lastTick = None
  /\ lastRead = None
  /\ tlePhase = "idle" /\ tleIn = None /\ tleOut = None /\ tleDec = None
  /\ riskIn = None /\ riskOut = None

\* handleAddSatelliteByNorad, once the TLE has arrived
AddSatelliteByNorad ==
  /\ \E sat \in Catalog :
       /\ satellites' =
            IF \E i \in 1..Len(satellites) : satellites[i].noradId = sat.noradId
            THEN [i \in 1..Len(satellites) |->
                    IF satellites[i].noradId = sat.noradId THEN sat ELSE satellites[i]]
            ELSE Append(satellites, sat)
       /\ userOrbits' = Append(WithoutId(userOrbits, sat.id),
                               Orbit(sat.id, sat.tle1, sat.tle2, "#10b981"))
  /\ UNCHANGED <<orbitControl, maneuverHistory, applied, notApp>>

\* The Remove button of the satellite list.  The open panel's overlay covers
\* the page: the button is reached when the panel is closed.
removeSatellite ==
  /\ orbitControl = None
  /\ \E id \in OperatedIds :
       /\ HasId(satellites, id)
       /\ satellites' = WithoutId(satellites, id)
       /\ userOrbits' = WithoutId(userOrbits, id)
  /\ UNCHANGED <<orbitControl, maneuverHistory, applied, notApp>>


NoAdjustments ==
  [altitudeChange |-> 0, inclinationChange |-> 0, raanChange |-> 0,
   eccentricityChange |-> 0, argPerigeeChange |-> 0, meanAnomalyChange |-> 0]

\* The values typed into the panel: altitude in metres, eccentricity in 1e-7
AdjustmentInputs ==
  {<<"altitudeChange", 5000>>, <<"altitudeChange", 0 - 7000000>>,
   <<"eccentricityChange", 10000000>>}

\* x + d on a number
Plus(x, d) == IF IsFinite(x) THEN Fin(x.v + d) ELSE x

\* x % m of JavaScript: the result has the sign of x
Remainder(x, m) ==
  IF ~IsFinite(x) THEN NaN
  ELSE IF x.v < 0 THEN Fin(0 - ((0 - x.v) % m)) ELSE Fin(x.v % m)

\* Math.max(0, Math.min(0.9, x)), in 1e-7
ClampEccentricity(x) == IF IsFinite(x) THEN Fin(Max(0, Min(9000000, x.v))) ELSE NaN

\* The panel's effect on [satellite]: the elements read from line 2
PanelElements(satellite) ==
  LET d == PanelDecode(satellite.tle2)
  IN [semiMajorAxisKm |-> SemiMajorAxisOf(d.meanMotion),
      eccentricity |-> d.eccentricity,
      inclinationDeg |-> d.inclinationDeg,
      raanDeg |-> d.raanDeg,
      argPerigeeDeg |-> d.argPerigeeDeg,
      meanAnomalyDeg |-> d.meanAnomalyDeg]

\* The adjustments the panel's effect sets from window.__aiSuggestedManeuver
FromSuggestion(aiSuggestion) ==
  [altitudeChange |-> aiSuggestion.altitudeChange,
   inclinationChange |-> aiSuggestion.inclinationChange,
   raanChange |-> aiSuggestion.raanChange,
   eccentricityChange |-> aiSuggestion.eccentricityChange,
   argPerigeeChange |-> 0, meanAnomalyChange |-> 0]

\* What a handler has asked for when it starts: nothing yet; handedFor is the
\* satellite the suggestion now in the window object was handed over for by
\* this handler, "" for one that was there before
NoCall ==
  [opened |-> FALSE, satellite |-> None, collisionRisk |-> None,
   stored |-> aiSuggestedManeuver, handedFor |-> ""]

\* handleOpenOrbitControl(satelliteId, collisionRisk, suggestedManeuver) as
\* called from a closure that captured closureSatellites: the state setters
\* take effect at the commit, the window object is written at once
handleOpenCall(pending, closureSatellites, satelliteId, collisionRisk, suggestedManeuver) ==
  IF ~HasId(closureSatellites, satelliteId) THEN pending
  ELSE [opened |-> TRUE,
        satellite |-> FindById(closureSatellites, satelliteId),
        collisionRisk |-> collisionRisk,
        stored |-> IF suggestedManeuver # None THEN suggestedManeuver
                   ELSE pending.stored,
        handedFor |-> IF suggestedManeuver # None THEN satelliteId
                      ELSE pending.handedFor]

\* The commit after a handler, and the panel's effect.  The effect runs when
\* the panel mounts or its satellite prop changed, returns at once for a
\* satellite without tle2, and otherwise takes the suggestion from the window
\* object and deletes it there.  (A satellite object is told from another by
\* its fields.)
CommitPanel(pending) ==
  IF ~pending.opened
  THEN /\ aiSuggestedManeuver' = pending.stored
       /\ UNCHANGED <<orbitControl, orbitControlCollisionRisk, prefilled>>
  ELSE LET effectRuns == /\ orbitControl = None \/ orbitControl.satellite # pending.satellite
                         /\ Len(pending.satellite.tle2) > 0
           picked == effectRuns /\ pending.stored # None
       IN /\ orbitControl' =
               [k |-> "open", satellite |-> pending.satellite,
                adjustments |-> IF picked THEN FromSuggestion(pending.stored)
                                ELSE IF orbitControl = None THEN NoAdjustments
                                ELSE orbitControl.adjustments]
          /\ orbitControlCollisionRisk' = pending.collisionRisk
          /\ aiSuggestedManeuver' = IF picked THEN None ELSE pending.stored
          /\ prefilled' = IF picked THEN [handedFor |-> pending.handedFor]
                          ELSE IF effectRuns THEN None ELSE prefilled

\* One call of handleOpenOrbitControl and the commit after it
OpenOrbitControl(closureSatellites, satelliteId, collisionRisk, suggestedManeuver) ==
  CommitPanel(handleOpenCall(NoCall, closureSatellites, satelliteId, collisionRisk,
                             suggestedManeuver))

\* The panel is opened from the satellite list.  A panel that is mounted
\* starts without adjustments; one that is already open keeps them when its
\* satellite changes
handleOpenOrbitControl ==
  /\ \E id \in OperatedIds :
       /\ HasId(satellites, id)
       /\ OpenOrbitControl(satellites, id, None, None)
  /\ UNCHANGED <<satellites, userOrbits, maneuverHistory, applied, tleVars, riskVars,
                 clockVars, loadVars, callVars, detectVars, timers, demoVars,
                 assistVars>>

\* An adjustment field of the panel is edited, once per opening
SetAdjustment ==
  /\ orbitControl # None
  /\ orbitControl.adjustments = NoAdjustments
  /\ \E in \in AdjustmentInputs :
       orbitControl' = [orbitControl EXCEPT !.adjustments[in[1]] = in[2]]
  /\ UNCHANGED <<satellites, userOrbits, maneuverHistory, applied, notApp>>

\* onClose
ClosePanel ==
  /\ orbitControl # None
  /\ orbitControl' = None
  /\ orbitControlCollisionRisk' = None
  /\ prefilled' = None
  /\ UNCHANGED <<satellites, userOrbits, maneuverHistory, applied, tleVars, riskVars,
                 clockVars, loadVars, callVars, detectVars, aiSuggestedManeuver,
                 timers, demoVars, assistVars>>

\* applyManeuver, up to the call of onApplyManeuver
NewSemiMajorAxis(elements, adjustments) ==
  Plus(Plus(Plus(elements.semiMajorAxisKm, 0 - 6371000), adjustments.altitudeChange),
       6371000)

NewElements(satellite, elements, adjustments) ==
  [inclinationDeg |-> Plus(elements.inclinationDeg, adjustments.inclinationChange),
   raanDeg |-> Remainder(Plus(elements.raanDeg, adjustments.raanChange + 36000000),
                         36000000),
   eccentricity |->
     ClampEccentricity(Plus(elements.eccentricity, adjustments.eccentricityChange)),
   argumentOfPerigeeDeg |->
     Remainder(Plus(elements.argPerigeeDeg, adjustments.argPerigeeChange + 36000000),
               36000000),
   meanAnomalyDeg |->
     Remainder(Plus(elements.meanAnomalyDeg, adjustments.meanAnomalyChange + 36000000),
               36000000),
   meanMotionRevPerDay |-> MeanMotionOf(NewSemiMajorAxis(elements, adjustments)),
   epoch |-> DateNow,
   noradId |-> satellite.noradId]

\* The entry handleApplyManeuver records
ManeuverEntry_newAsOld(satellite, newTle1, newTle2) ==
  [satelliteId |-> satellite.id, timestamp |-> DateNow,
   oldTle1 |-> newTle1, oldTle2 |-> newTle2, newTle1 |-> newTle1, newTle2 |-> newTle2]

ManeuverEntry(satellite, newTle1, newTle2) ==
  [satelliteId |-> satellite.id, timestamp |-> DateNow,
   oldTle1 |-> satellite.tle1, oldTle2 |-> satellite.tle2,
   newTle1 |-> newTle1, newTle2 |-> newTle2]

handleApplyManeuver(satelliteId, newTle1, newTle2) ==
  IF ~HasId(satellites, satelliteId)
  THEN UNCHANGED <<maneuverHistory, satellites, userOrbits>>
  ELSE /\ maneuverHistory' =
            <<ManeuverEntry(FindById(satellites, satelliteId), newTle1, newTle2)>>
              \o maneuverHistory
       /\ satellites' =
            [i \in 1..Len(satellites) |->
               IF satellites[i].id = satelliteId
               THEN [satellites[i] EXCEPT !.tle1 = newTle1, !.tle2 = newTle2]
               ELSE satellites[i]]
       /\ userOrbits' = Append(WithoutId(userOrbits, satelliteId),
                               Orbit(satelliteId, newTle1, newTle2, "#10b981"))

\* The Apply Maneuver button: applyManeuver, then onApplyManeuver and onClose
applyManeuver ==
  /\ orbitControl # None
  /\ Len(applied) < MaxManeuvers
  /\ LET satellite == orbitControl.satellite
         elements == PanelElements(satellite)
         adjustments == orbitControl.adjustments
         newElements == NewElements(satellite, elements, adjustments)
     IN \E rnd \in RandomSet :
       LET tle == createTLEFromKeplerian(newElements, rnd, DateNow)
       IN /\ handleApplyManeuver(satellite.id, tle.line1, tle.line2)
          /\ applied' = Append(applied,
               [satelliteId |-> satellite.id, base |-> satellite,
                elements |-> elements, adjustments |-> adjustments,
                newSemiMajorAxis |-> NewSemiMajorAxis(elements, adjustments),
                newElements |-> newElements,
                line1 |-> tle.line1, line2 |-> tle.line2,
                found |-> HasId(satellites, satellite.id)])
  /\ orbitControl' = None
  /\ orbitControlCollisionRisk' = None
  /\ prefilled' = None
  /\ UNCHANGED <<tleVars, riskVars, clockVars, loadVars, callVars, detectVars,
                 aiSuggestedManeuver, timers, demoVars, assistVars>>

\* Time passes
AppAdvanceWall == wallNow < MaxEpoch /\ AdvanceWall

AppNext ==
  \/ AddSatelliteByNorad
  \/ removeSatellite \/ handleOpenOrbitControl \/ SetAdjustment \/ ClosePanel
  \/ applyManeuver \/ AppAdvanceWall

(***************************************************************************)
(* Add via Orbital Parameters                                              *)
(***************************************************************************)
MaxSatellites == 6

\* The names typed into the form
CustomNames == {"CUSTOM1", "25544"}

\* The elements typed into the form: those of the built-in ISS TLE, in the
\* units of createTLEFromKeplerian
FormElements ==
  [inclinationDeg |-> Fin(5164400), raanDeg |-> Fin(3174920),
   eccentricity |-> Fin(9013), argumentOfPerigeeDeg |-> Fin(7750700),
   meanAnomalyDeg |-> Fin(28264640), meanMotionRevPerDay |-> Fin(1550008891),
   epoch |-> NoEpoch, noradId |-> 0]

\* noradId 'CUSTOM' of a satellite that matched no catalog entry
CustomNoradId == 0 - 1

\* The Add Satellite button of the orbital-parameters form; the catalog
\* candidates are always empty, so nothing is matched
AddViaOrbitalParameters ==
  /\ Len(satellites) < MaxSatellites
  /\ \E name \in CustomNames, rnd \in RandomSet :
       LET synth == createTLEFromKeplerian(FormElements, rnd, DateNow)
           sat == [id |-> "sat_" \o name, noradId |-> CustomNoradId,
                   tle1 |-> synth.line1, tle2 |-> synth.line2]
       IN /\ satellites' = Append(satellites, sat)
          /\ userOrbits' = Append(userOrbits,
                                  Orbit(sat.id, synth.line1, synth.line2, "#60a5fa"))
  /\ UNCHANGED <<orbitControl, maneuverHistory, applied, notApp>>

IdsNext == AddViaOrbitalParameters \/ AddSatelliteByNorad \/ removeSatellite

(***************************************************************************)
(* The assistant's plans: executeAssistantPlan                             *)
(***************************************************************************)
MaxPlan == 2

\* The maneuver the assistant suggests: 5 km up
SuggestionSet ==
  {[altitudeChange |-> 5000, inclinationChange |-> 0, raanChange |-> 0,
    eccentricityChange |-> 0]}

\* The minutes of a setSimMinutes command, in half-minutes
PlanMinutesSet == {6}

\* The satellites a plan names: two that are tracked, one that is not
PlanIds == {"sat_25544", "sat_20580", "sat_99999"}

\* A command, with the arguments it does not use left at their defaults
Command(name, minutes, satelliteId, suggestedManeuver) ==
  [name |-> name, minutes |-> minutes, satelliteId |-> satelliteId,
   suggestedManeuver |-> suggestedManeuver]

CommandSet ==
  {Command(n, 0, "", None) :
     n \in {"jumpToNow", "toggleOrbits", "focusSatellite", "visualizeConjunction",
            "addSatelliteByNorad"}}
    \cup {Command("setSimMinutes", m, "", None) : m \in PlanMinutesSet}
    \cup {Command("executeManeuver", 0, id, sg) : id \in {"sat_25544"}, sg \in SuggestionSet}
    \cup {Command("openOrbitControl", 0, id, sg) :
            id \in PlanIds, sg \in {None} \cup SuggestionSet}

Plans == UNION {[1..n -> CommandSet] : n \in 1..MaxPlan}

\* A plan executor that carried out executeManeuver itself
CommandSatellites_executing(c, sats) ==
  IF c.name = "executeManeuver"
  THEN [i \in 1..Len(sats) |->
          IF sats[i].id = c.satelliteId THEN [sats[i] EXCEPT !.tle2 = EccentricLine2]
          ELSE sats[i]]
  ELSE sats

\* What one command does to the tracked satellites: jumpToNow copies each
\* satellite with its position renewed, and no other command touches them
CommandSatellites(c, sats) ==
  IF c.name = "jumpToNow" THEN [i \in 1..Len(sats) |-> sats[i]] ELSE sats

RECURSIVE PlanSatellites(_, _)
PlanSatellites(plan, sats) ==
  IF plan = <<>> THEN sats
  ELSE PlanSatellites(Tail(plan), CommandSatellites(Head(plan), sats))

\* simMinutes after the plan
RECURSIVE PlanMinutes(_, _)
PlanMinutes(plan, minutes) ==
  IF plan = <<>> THEN minutes
  ELSE PlanMinutes(Tail(plan),
                   IF Head(plan).name = "jumpToNow" THEN 0
                   ELSE IF Head(plan).name = "setSimMinutes" THEN Head(plan).minutes
                   ELSE minutes)

\* Whether the clock was last set by jumpToNow
RECURSIVE PlanJumped(_, _)
PlanJumped(plan, j) ==
  IF plan = <<>> THEN j
  ELSE PlanJumped(Tail(plan),
                  IF Head(plan).name = "jumpToNow" THEN TRUE
                  ELSE IF Head(plan).name = "setSimMinutes" THEN FALSE
                  ELSE j)

\* The calls of handleOpenOrbitControl the plan makes, all from the one
\* closure of executeAssistantPlan
RECURSIVE PlanPanel(_, _, _)
PlanPanel(plan, pending, closureSatellites) ==
  IF plan = <<>> THEN pending
  ELSE LET c == Head(plan)
       IN PlanPanel(Tail(plan),
                    IF c.name = "openOrbitControl" /\ c.satelliteId # ""
                    THEN handleOpenCall(pending, closureSatellites, c.satelliteId,
                                        None, c.suggestedManeuver)
                    ELSE pending,
                    closureSatellites)

\* executeAssistantPlan(commands), from the Execute button (an event handler)
\* or, with auto-execute on, after the assistant's reply was awaited
executeAssistantPlan ==
  /\ \E plan \in Plans :
       LET jump == \E i \in 1..Len(plan) : plan[i].name = "jumpToNow"
           minutes == PlanMinutes(plan, simMinutes)
           running == IF jump THEN FALSE ELSE simRunning
       IN /\ satellites' = PlanSatellites(plan, satellites)
          /\ simMinutes' = minutes
          /\ simRunning' = running
          /\ Render(running, minutes, jump)
          /\ jumped' = PlanJumped(plan, jumped)
          /\ IF jump
             THEN \E inHandler \in BOOLEAN :
                    IF inHandler
                    THEN raf' = None /\ effectPending' = FALSE
                    ELSE raf' = raf /\ effectPending' = (effectPending \/ simRunning)
             ELSE UNCHANGED <<raf, effectPending>>
          /\ CommitPanel(PlanPanel(plan, NoCall, satellites))
  /\ UNCHANGED <<wallNow, simSpeed, lastTick, userOrbits, maneuverHistory, applied,
                 tleVars, riskVars, loadVars, callVars, detectVars, timers, demoVars,
                 assistVars>>

PlanNext ==
  \/ executeAssistantPlan
  \/ handleOpenOrbitControl
  \/ ClosePanel
  \/ applyManeuver

(***************************************************************************)
(* Decoding of arbitrary lines: well-formed, short, empty, led by a blank  *)
(***************************************************************************)
\* A line, the line cut short, the line led by a blank, the line with another
\* line number, and the empty line
Variants(line) ==
  {line, SubSeq(line, 1, 60), <<" ">> \o line, <<"3">> \o Tail(line), <<>>}

DecodeLines1 == Variants(FallbackIssLine1) \cup Variants(FallbackHstLine1)
DecodeLines2 == Variants(FallbackIssLine2) \cup Variants(FallbackHstLine2)

DecodeInit ==
  /\ tlePhase = "encoded" /\ tleIn = None /\ tleDec = None
  /\ tleOut \in [line1 : DecodeLines1, line2 : DecodeLines2]
  /\ riskIn = None /\ riskOut = None
  /\ wallNow = 0 /\ simMinutes = 0 /\ simRunning = FALSE /\ simSpeed = 10 /\ simDate = 0
  /\ raf = None /\ effectPending = FALSE /\ jumped = FALSE /\ lastTick = None
  /\ lastRead = None
  /\ satellites = <<>> /\ userOrbits = <<>> /\ orbitControl = None
  /\ maneuverHistory = <<>> /\ applied = <<>>
  /\ addError = None /\ adding = FALSE /\ lastLoad = None
  /\ cdmData = <<>> /\ autoAlertShown = {} /\ detectedCollisionRisks = <<>>
  /\ detectPending = FALSE
  /\ aiSuggestedManeuver = None /\ orbitControlCollisionRisk = None /\ timers = {}
  /\ prefilled = None
  /\ demoMode = FALSE /\ spaceWeatherThreats = <<>> /\ demoTimers = {}
  /\ positionDue = 0
  /\ lastStateRef = <<>> /\ hasEmergency = FALSE /\ requests = <<>>
  /\ collapsePending = FALSE
  /\ callIn = None /\ callOut = None

DecodeNext == DecodeInPanel \/ DecodeInApp \/ ValidateInOrbitPath

(***************************************************************************)
(* Loading satellites: Add by NORAD id, and the click on a conjunction     *)
(***************************************************************************)
\* Line 2 with the inclination columns blank
BlankInclination(line) ==
  [i \in 1..Len(line) |-> IF i \in 9..16 THEN " " ELSE line[i]]

\* What the fetch can answer with: not ok, an empty text, line 1 alone, a line
\* 2 without inclination, both lines cut short, both lines whole
Responses(sat) ==
  {[ok |-> FALSE, lines |-> <<>>],
   [ok |-> TRUE, lines |-> <<>>],
   [ok |-> TRUE, lines |-> <<sat.tle1>>],
   [ok |-> TRUE, lines |-> <<sat.tle1, BlankInclination(sat.tle2)>>],
   [ok |-> TRUE, lines |-> <<SubSeq(sat.tle1, 1, 60), SubSeq(sat.tle2, 1, 60)>>],
   [ok |-> TRUE, lines |-> <<sat.tle1, sat.tle2>>]}

\* tleText.split(/\r?\n/).map(l => l.trim()).filter(l => l.length > 0)
TrimmedLines(lines) ==
  SelectSeq([i \in 1..Len(lines) |-> Trim(lines[i])], LAMBDA l : Len(l) > 0)

\* The first line that starts with the digit and a space, '' if there is none
RECURSIVE FirstLine(_, _)
FirstLine(lines, digit) ==
  IF lines = <<>> THEN <<>>
  ELSE IF StartsWith(Head(lines), <<digit, " ">>) THEN Head(lines)
  ELSE FirstLine(Tail(lines), digit)

AllFinite(elements) ==
  /\ IsFinite(elements.inclinationDeg) /\ IsFinite(elements.raanDeg)
  /\ IsFinite(elements.eccentricity) /\ IsFinite(elements.argPerigeeDeg)
  /\ IsFinite(elements.meanAnomalyDeg) /\ IsFinite(elements.meanMotion)

\* generateOrbitPath's guards: [] for lines it does not accept
PathGenerated(line1, line2) ==
  /\ Len(line1) >= 69 /\ Len(line2) >= 69
  /\ StartsWith(Trim(line1), <<"1", " ">>) /\ StartsWith(Trim(line2), <<"2", " ">>)

Upsert(sats, sat) ==
  IF \E i \in 1..Len(sats) : sats[i].noradId = sat.noradId
  THEN [i \in 1..Len(sats) |-> IF sats[i].noradId = sat.noradId THEN sat ELSE sats[i]]
  ELSE Append(sats, sat)

\* The render after setSatellites: the memos that depend on satellites run again
RenderAfter(satellitesChanged) ==
  IF satellitesChanged
  THEN /\ Render(simRunning, simMinutes, TRUE)
       /\ UNCHANGED <<wallNow, simMinutes, simRunning, simSpeed, raf, effectPending,
                      jumped, lastTick>>
  ELSE UNCHANGED clockVars

\* How many setTimeout callbacks are outstanding at a time
MaxTimers == 1

\* A setTimeout callback that calls handleOpenOrbitControl runs
OpenTimerFires ==
  /\ \E t \in timers :
       /\ OpenOrbitControl(t.satellites, t.satelliteId, t.collisionRisk,
                           t.suggestedManeuver)
       /\ timers' = timers \ {t}
  /\ UNCHANGED <<satellites, userOrbits, maneuverHistory, applied, tleVars, riskVars,
                 clockVars, loadVars, callVars, detectVars, demoVars, assistVars>>

\* A message of setAddError
Message(text) == [k |-> "message", text |-> text]

\* handleAddSatelliteByNorad from the click to its finally block
handleAddSatelliteByNorad ==
  /\ ~adding
  /\ \E sat \in Catalog : \E response \in Responses(sat) :
       LET lines == TrimmedLines(response.lines)
           l1 == FirstLine(lines, "1")
           l2 == FirstLine(lines, "2")
           thrown ==
             IF ~response.ok THEN Message("No TLE data available")
             ELSE IF lines = <<>> THEN Message("Empty TLE response")
             ELSE IF l1 = <<>> \/ l2 = <<>>
               THEN Message("Failed to parse satellite data. TLE may be corrupted.")
             ELSE IF ~AllFinite(parseFromTLE(l2))
               THEN Message("Failed to parse satellite data. TLE may be corrupted.")
             ELSE None
           newSat == Satellite(sat.noradId, l1, l2)
           after ==
             IF thrown # None THEN <<satellites, userOrbits>>
             ELSE <<Upsert(satellites, newSat),
                    IF PathGenerated(l1, l2)
                    THEN Append(WithoutId(userOrbits, newSat.id),
                                Orbit(newSat.id, l1, l2, "#10b981"))
                    ELSE userOrbits>>
           message ==
             IF thrown # None THEN thrown
             ELSE IF PathGenerated(l1, l2) THEN None
             ELSE Message("Satellite added but orbit failed to generate")
       IN /\ satellites' = after[1]
          /\ userOrbits' = after[2]
          /\ addError' = message
          /\ lastLoad' = [op |-> "addByNorad", phase |-> "done",
                          failed |-> thrown # None,
                          before |-> <<satellites, userOrbits>>, after |-> after]
          /\ RenderAfter(after[1] # satellites)
  /\ UNCHANGED <<adding, notLoad, panelVars>>

\* handleConjunctionClick up to its await: without both NORAD ids it reports
\* and returns, otherwise it empties the view and starts the two fetches
handleConjunctionClick ==
  /\ ~adding
  /\ Cardinality(timers) < MaxTimers
  /\ \E idsKnown \in BOOLEAN :
       IF idsKnown
       THEN /\ satellites' = <<>> /\ userOrbits' = <<>>
            /\ addError' = None /\ adding' = TRUE
            /\ lastLoad' = [op |-> "conjunction", phase |-> "awaiting",
                            before |-> <<satellites, userOrbits>>]
            /\ RenderAfter(satellites # <<>>)
       ELSE /\ addError' = Message("Cannot visualize: NORAD IDs not available")
            /\ lastLoad' = [op |-> "conjunction", phase |-> "done", failed |-> TRUE,
                            before |-> <<satellites, userOrbits>>,
                            after |-> <<satellites, userOrbits>>,
                            first |-> "", riskLevel |-> "NONE", missDistanceKm |-> 0]
            /\ UNCHANGED <<satellites, userOrbits, adding, clockVars>>
  /\ UNCHANGED <<notLoad, panelVars>>

\* The inner addSatelliteByNorad of handleConjunctionClick: null unless both
\* lines were found
ConjunctionLoad(sat, response) ==
  LET lines == TrimmedLines(response.lines)
      l1 == FirstLine(lines, "1")
      l2 == FirstLine(lines, "2")
  IN IF ~response.ok \/ lines = <<>> \/ l1 = <<>> \/ l2 = <<>> THEN None
     ELSE Satellite(sat.noradId, l1, l2)

\* The conjunctions clicked: object 1, object 2
ConjunctionObjects ==
  <<Satellite(25544, FallbackIssLine1, FallbackIssLine2),
    Satellite(11111, EccentricLine1, EccentricLine2)>>

\* The rows of the conjunction table: the pair, and the pair the other way round
ConjunctionRows ==
  {ConjunctionObjects, <<ConjunctionObjects[2], ConjunctionObjects[1]>>}

\* What the two fetches of a click answer with
ConjunctionResponses(sat) ==
  {r \in Responses(sat) : ~r.ok \/ Len(r.lines) # 2 \/ r.lines = <<sat.tle1, sat.tle2>>}

\* conjunction.tca: absent, or a time so many half-minutes from now
TcaSet == {None} \cup {[k |-> "tca", minutesUntilTCA |-> m] : m \in OffsetSet}

\* totalDistance, from the two positions at TCA, in tenths of a km
MissAtTcaSet == {4, 300}

\* handleConjunctionClick from the answers of Promise.all to its finally block.
\* The callback handed to setTimeout calls the handleOpenOrbitControl of the
\* render the click happened in, whose satellites are those before the click.
ConjunctionLoaded ==
  /\ adding
  /\ \E row \in ConjunctionRows :
     \E r1 \in ConjunctionResponses(row[1]), r2 \in ConjunctionResponses(row[2]),
        tca \in TcaSet, totalDistance \in MissAtTcaSet :
       LET result1 == ConjunctionLoad(row[1], r1)
           result2 == ConjunctionLoad(row[2], r2)
           newSatellites ==
             (IF result1 = None THEN <<>> ELSE <<result1>>)
               \o (IF result2 = None THEN <<>> ELSE <<result2>>)
           newOrbits ==
             (IF result1 = None THEN <<>>
              ELSE <<Orbit(result1.id, result1.tle1, result1.tle2, "#ef4444")>>)
               \o (IF result2 = None THEN <<>>
                   ELSE <<Orbit(result2.id, result2.tle1, result2.tle2, "#f59e0b")>>)
           loaded == newSatellites # <<>>
           after == IF loaded THEN <<newSatellites, newOrbits>>
                    ELSE <<satellites, userOrbits>>
           atTca == tca # None /\ result1 # None /\ result2 # None
           riskLevel ==
             IF atTca
             THEN assessRiskLevel(totalDistance, Abs(tca.minutesUntilTCA) \div 2)
             ELSE "NONE"
           collisionRisk ==
             [targetId |-> row[2].id, missDistanceKm |-> totalDistance,
              riskLevel |-> riskLevel]
       IN /\ satellites' = after[1]
          /\ userOrbits' = after[2]
          /\ addError' = IF loaded THEN addError
                         ELSE Message("Failed to add satellites for conjunction visualization")
          /\ lastLoad' = [op |-> "conjunction", phase |-> "done", failed |-> ~loaded,
                          before |-> lastLoad.before, after |-> after,
                          first |-> row[1].id, riskLevel |-> riskLevel,
                          missDistanceKm |-> totalDistance]
          /\ timers' = IF riskLevel \in {"CRITICAL", "HIGH"}
                       THEN timers \cup {[satellites |-> lastLoad.before[1],
                                          satelliteId |-> row[1].id,
                                          collisionRisk |-> collisionRisk,
                                          suggestedManeuver |-> None]}
                       ELSE timers
          /\ IF atTca
             THEN /\ simMinutes' = tca.minutesUntilTCA
                  /\ simRunning' = FALSE
                  /\ Render(FALSE, tca.minutesUntilTCA, TRUE)
                  /\ effectPending' = (effectPending \/ simRunning)
                  /\ jumped' = FALSE
                  /\ UNCHANGED <<wallNow, simSpeed, raf, lastTick>>
             ELSE RenderAfter(after[1] # satellites)
  /\ adding' = FALSE
  /\ UNCHANGED <<notLoad, aiSuggestedManeuver, orbitControlCollisionRisk, prefilled>>

LoadNext ==
  \/ handleAddSatelliteByNorad
  \/ handleConjunctionClick
  \/ ConjunctionLoaded
  \/ OpenTimerFires

(***************************************************************************)
(* Avoidance suggestions: the utility and the panel's Auto-Calculate       *)
(***************************************************************************)
\* calculateAvoidanceManeuver of utils/orbit.ts; distances in tenths of a km.
\* deltaVMs is derived from altitudeChangeKm afterwards and is left out.
calculateAvoidanceManeuver(missDistanceKm) ==
  IF missDistanceKm < 10
    THEN [altitudeChangeKm |-> Max(50, missDistanceKm * 5),
          description |-> "CRITICAL avoidance maneuver"]
  ELSE IF missDistanceKm < 50
    THEN [altitudeChangeKm |-> Max(30, missDistanceKm * 2),
          description |-> "HIGH RISK avoidance maneuver"]
  ELSE IF missDistanceKm < 100
    THEN [altitudeChangeKm |-> Max(20, missDistanceKm),
          description |-> "MODERATE RISK avoidance maneuver"]
  ELSE [altitudeChangeKm |-> 10, description |-> "Precautionary maneuver"]

\* OrbitControlPanel.calculateAvoidanceManeuver: what it hands to
\* setAdjustments and setManeuverDescription
PanelAvoidance(missDistance) ==
  IF missDistance < 5
    THEN [altitudeChangeKm |-> 100, description |-> "CRITICAL AVOIDANCE"]
  ELSE IF missDistance < 10
    THEN [altitudeChangeKm |-> 80, description |-> "CRITICAL AVOIDANCE"]
  ELSE IF missDistance < 50
    THEN [altitudeChangeKm |-> 50, description |-> "HIGH RISK AVOIDANCE"]
  ELSE IF missDistance < 100
    THEN [altitudeChangeKm |-> 30, description |-> "MODERATE RISK AVOIDANCE"]
  ELSE [altitudeChangeKm |-> 20, description |-> "PRECAUTIONARY AVOIDANCE"]

AvoidInit ==
  /\ callIn \in [missDistanceKm : MissDistances]
  /\ callOut = None
  /\ satellites = <<>> /\ userOrbits = <<>> /\ orbitControl = None
  /\ maneuverHistory = <<>> /\ applied = <<>>
  /\ addError = None /\ adding = FALSE /\ lastLoad = None
  /\ cdmData = <<>> /\ autoAlertShown = {} /\ detectedCollisionRisks = <<>>
  /\ detectPending = FALSE
  /\ aiSuggestedManeuver = None /\ orbitControlCollisionRisk = None /\ timers = {}
  /\ prefilled = None
  /\ demoMode = FALSE /\ spaceWeatherThreats = <<>> /\ demoTimers = {}
  /\ positionDue = 0
  /\ lastStateRef = <<>> /\ hasEmergency = FALSE /\ requests = <<>>
  /\ collapsePending = FALSE
  /\ wallNow = 0 /\ simMinutes = 0 /\ simRunning = FALSE /\ simSpeed = 10 /\ simDate = 0
  /\ raf = None /\ effectPending = FALSE /\ jumped = FALSE /\ lastTick = None
  /\ lastRead = None
  /\ tlePhase = "idle" /\ tleIn = None /\ tleOut = None /\ tleDec = None
  /\ riskIn = None /\ riskOut = None

SuggestAvoidance ==
  /\ callOut = None
  /\ callOut' = [by |-> "utility"] @@ calculateAvoidanceManeuver(callIn.missDistanceKm)
  /\ UNCHANGED <<callIn, notCall>>

AutoCalculateAvoidance ==
  /\ callOut = None
  /\ callOut' = [by |-> "panel"] @@ PanelAvoidance(callIn.missDistanceKm)
  /\ UNCHANGED <<callIn, notCall>>

AvoidNext == SuggestAvoidance \/ AutoCalculateAvoidance

(***************************************************************************)
(* Collision probability.  Distances and radii are in hundredths of a km,  *)
(* probabilities in 1e-4.                                                  *)
(***************************************************************************)
ProbabilityOne == 10000

\* Math.exp(-a) for whole a, in 1e-4
ExpNegWhole(a) ==
  IF a > 9 THEN 0 ELSE <<10000, 3679, 1353, 498, 183, 67, 25, 9, 3, 1>>[a + 1]

\* Math.exp(-r / 5000) for 0 <= r < 5000, in 1e-4: the series to the 4th power
ExpNegFraction(r) ==
  LET x1 == 2 * r
      x2 == (x1 * x1) \div (2 * 10000)
      x3 == (x2 * x1) \div (3 * 10000)
      x4 == (x3 * x1) \div (4 * 10000)
  IN 10000 - x1 + x2 - x3 + x4

\* Math.exp(-k / 5000), in 1e-4
ExpNeg(k) == (ExpNegWhole(k \div 5000) * ExpNegFraction(k % 5000)) \div 10000

\* calculateCollisionProbability: relativeVelocityKmS is not read.  A NaN miss
\* distance fails the <= test, makes sigma NaN and with it the product, and
\* Math.max and Math.min hand NaN on; an infinite one gives Infinity / Infinity.
calculateCollisionProbability(missDistanceKm, relativeVelocityKmS, primaryRadiusKm, secondaryRadiusKm) ==
  LET combinedRadiusKm == primaryRadiusKm + secondaryRadiusKm
  IN IF missDistanceKm.k = "nan" THEN NaN
     ELSE IF missDistanceKm.k = "inf" THEN NaN
     ELSE IF missDistanceKm.v <= combinedRadiusKm THEN Fin(ProbabilityOne)
     ELSE LET m == missDistanceKm.v
              \* (m / sigma)^2 / 2 in 1/5000, sigma = max(0.5, m * 0.1)
              half == IF m <= 500 THEN m * m ELSE 250000
              probability ==
                IF m = 0 THEN 0 - ProbabilityOne - 1   \* 1 * (negative / 0) = -Infinity
                ELSE (ExpNeg(half) * combinedRadiusKm) \div m
          IN Fin(Min(ProbabilityOne, Max(0, probability)))

MissDistanceSet == {0, 1, 2, 3, 4, 10, 50, 100, 101, 499, 500, 501, 1000}
RadiusSet == {0 - 1, 1, 50}
RelativeVelocitySet == {0, 75}

ProbabilityInit ==
  /\ callIn \in [missDistanceKm : {Fin(m) : m \in MissDistanceSet} \cup {NaN, Infinity},
                 relativeVelocityKmS : RelativeVelocitySet,
                 primaryRadiusKm : RadiusSet, secondaryRadiusKm : RadiusSet]
  /\ callOut = None
  /\ satellites = <<>> /\ userOrbits = <<>> /\ orbitControl = None
  /\ maneuverHistory = <<>> /\ applied = <<>>
  /\ addError = None /\ adding = FALSE /\ lastLoad = None
  /\ cdmData = <<>> /\ autoAlertShown = {} /\ detectedCollisionRisks = <<>>
  /\ detectPending = FALSE
  /\ aiSuggestedManeuver = None /\ orbitControlCollisionRisk = None /\ timers = {}
  /\ prefilled = None
  /\ demoMode = FALSE /\ spaceWeatherThreats = <<>> /\ demoTimers = {}
  /\ positionDue = 0
  /\ lastStateRef = <<>> /\ hasEmergency = FALSE /\ requests = <<>>
  /\ collapsePending = FALSE
  /\ wallNow = 0 /\ simMinutes = 0 /\ simRunning = FALSE /\ simSpeed = 10 /\ simDate = 0
  /\ raf = None /\ effectPending = FALSE /\ jumped = FALSE /\ lastTick = None
  /\ lastRead = None
  /\ tlePhase = "idle" /\ tleIn = None /\ tleOut = None /\ tleDec = None
  /\ riskIn = None /\ riskOut = None

\* The call with both radii given
CollisionProbability ==
  /\ callOut = None
  /\ callOut' = [probability |->
                   calculateCollisionProbability(callIn.missDistanceKm,
                     callIn.relativeVelocityKmS, callIn.primaryRadiusKm,
                     callIn.secondaryRadiusKm)]
  /\ UNCHANGED <<callIn, notCall>>

\* App's calls: the radii take their defaults of 0.01 km
CollisionProbabilityDefaultRadii ==
  /\ callOut = None
  /\ callIn.primaryRadiusKm = 1 /\ callIn.secondaryRadiusKm = 1
  /\ callOut' = [probability |->
                   calculateCollisionProbability(callIn.missDistanceKm,
                     callIn.relativeVelocityKmS, 1, 1), defaults |-> TRUE]
  /\ UNCHANGED <<callIn, notCall>>

ProbabilityNext == CollisionProbability \/ CollisionProbabilityDefaultRadii

(***************************************************************************)
(* Trajectory sampling: generateOrbitPath and generateEciTrack, one loop    *)
(* iteration per step.  Times are in hundredths of a minute, offsets from   *)
(* the centre time; altitudes in km.  The lines are taken to be valid and   *)
(* twoline2satrec to have succeeded.                                        *)
(***************************************************************************)
NegInfinity == [k |-> "-inf", v |-> 0]

\* altKm < bound and altKm > bound on JavaScript numbers
NumLess(x, bound) == (x.k = "fin" /\ x.v < bound) \/ x.k = "-inf"
NumGreater(x, bound) == (x.k = "fin" /\ x.v > bound) \/ x.k = "inf"

\* minutesAhead / durationMin, stepMinutes / stepMin, and 1440 / meanMotion
\* in minutes (16 and 1 revolutions per day)
DurationSet == {0, 100, 250, 400}
StepSet == {100, 200}
PeriodSet == {90, 1440}

\* What propagate and eciToGeodetic give for one instant: no position, or a
\* latitude, a longitude and a height
SampleSet ==
  {[position |-> FALSE, lat |-> Fin(0), lon |-> Fin(0), altKm |-> Fin(0)]}
    \cup [position : {TRUE}, lat : {Fin(0), NaN}, lon : {Fin(0), Infinity},
          altKm : {Fin(400), Fin(50), Fin(200000), NaN, Infinity, NegInfinity}]

NonFiniteSample(sample) ==
  sample.position
    /\ (~IsFinite(sample.lat) \/ ~IsFinite(sample.lon) \/ ~IsFinite(sample.altKm))

PathInit ==
  /\ callIn \in [fn : {"generateOrbitPath", "generateEciTrack"},
                 duration : DurationSet, stepMinutes : StepSet,
                 orbitalPeriodMinutes : PeriodSet]
  /\ callOut = None
  /\ satellites = <<>> /\ userOrbits = <<>> /\ orbitControl = None
  /\ maneuverHistory = <<>> /\ applied = <<>>
  /\ addError = None /\ adding = FALSE /\ lastLoad = None
  /\ cdmData = <<>> /\ autoAlertShown = {} /\ detectedCollisionRisks = <<>>
  /\ detectPending = FALSE
  /\ aiSuggestedManeuver = None /\ orbitControlCollisionRisk = None /\ timers = {}
  /\ prefilled = None
  /\ demoMode = FALSE /\ spaceWeatherThreats = <<>> /\ demoTimers = {}
  /\ positionDue = 0
  /\ lastStateRef = <<>> /\ hasEmergency = FALSE /\ requests = <<>>
  /\ collapsePending = FALSE
  /\ wallNow = 0 /\ simMinutes = 0 /\ simRunning = FALSE /\ simSpeed = 10 /\ simDate = 0
  /\ raf = None /\ effectPending = FALSE /\ jumped = FALSE /\ lastTick = None
  /\ lastRead = None
  /\ tlePhase = "idle" /\ tleIn = None /\ tleOut = None /\ tleDec = None
  /\ riskIn = None /\ riskOut = None

\* Up to the loop: step and startTime.  orbitalPeriodMinutes / 100 in
\* hundredths of a minute is the period in minutes.
StartPath ==
  /\ callOut = None
  /\ callOut' = [m |-> 0,
                 step |-> IF callIn.fn = "generateOrbitPath"
                          THEN Min(callIn.stepMinutes, callIn.orbitalPeriodMinutes)
                          ELSE callIn.stepMinutes,
                 startTime |-> 0 - (callIn.duration \div 2),
                 instants |-> <<>>, points |-> <<>>, nonFinite |-> FALSE,
                 returned |-> None]
  /\ UNCHANGED <<callIn, notCall>>

\* One iteration of generateOrbitPath's loop
SampleOrbitPath ==
  /\ callIn.fn = "generateOrbitPath"
  /\ callOut # None /\ callOut.returned = None
  /\ callOut.m <= callIn.duration
  /\ \E sample \in SampleSet :
       LET t == callOut.startTime + callOut.m
           evaluated == [callOut EXCEPT !.instants = Append(@, t),
                                       !.nonFinite = @ \/ NonFiniteSample(sample),
                                       !.m = @ + callOut.step]
       IN callOut' =
            IF ~sample.position THEN evaluated
            ELSE IF NumLess(sample.altKm, 100) \/ NumGreater(sample.altKm, 100000)
              THEN evaluated
            ELSE IF ~IsFinite(sample.altKm) \/ ~IsFinite(sample.lat)
                      \/ ~IsFinite(sample.lon)
              THEN [evaluated EXCEPT !.returned = [path |-> <<>>]]
            ELSE [evaluated EXCEPT !.points = Append(@, t)]
  /\ UNCHANGED <<callIn, notCall>>

\* The loop of generateOrbitPath ends: return points
ReturnOrbitPath ==
  /\ callIn.fn = "generateOrbitPath"
  /\ callOut # None /\ callOut.returned = None
  /\ callOut.m > callIn.duration
  /\ callOut' = [callOut EXCEPT !.returned = [path |-> callOut.points]]
  /\ UNCHANGED <<callIn, notCall>>

\* One iteration of generateEciTrack's loop
SampleEciTrack ==
  /\ callIn.fn = "generateEciTrack"
  /\ callOut # None /\ callOut.returned = None
  /\ callOut.m <= callIn.duration
  /\ \E sample \in SampleSet :
       LET t == callOut.startTime + callOut.m
           evaluated == [callOut EXCEPT !.instants = Append(@, t),
                                       !.nonFinite = @ \/ NonFiniteSample(sample),
                                       !.m = @ + callOut.step]
       IN callOut' = IF ~sample.position THEN evaluated
                     ELSE [evaluated EXCEPT !.points = Append(@, t)]
  /\ UNCHANGED <<callIn, notCall>>

\* The loop of generateEciTrack ends: return out
ReturnEciTrack ==
  /\ callIn.fn = "generateEciTrack"
  /\ callOut # None /\ callOut.returned = None
  /\ callOut.m > callIn.duration
  /\ callOut' = [callOut EXCEPT !.returned = [path |-> callOut.points]]
  /\ UNCHANGED <<callIn, notCall>>

PathNext ==
  \/ StartPath
  \/ SampleOrbitPath
  \/ ReturnOrbitPath
  \/ SampleEciTrack
  \/ ReturnEciTrack

(***************************************************************************)
(* The 2D map: orbitPathsData of Earth2DVisualization.  Longitudes are in   *)
(* whole degrees; a point is known by its index in the path.  The latitude  *)
(* is clamped and projected but not read by the segmentation.               *)
(***************************************************************************)
MaxPathLen == 4
LonSet == {0 - 180, 0 - 170, 0, 170, 180}

\* ((p.lon + 540) % 360) - 180; % has the sign of its left operand
WrapLon(lon) ==
  LET x == lon + 540
  IN (IF x < 0 THEN 0 - ((0 - x) % 360) ELSE x % 360) - 180

\* Math.abs(nextPoint.lon - point.lon) > 180, without the Math.abs
IsDateLineWrap_signed(lon, nextLon) == nextLon - lon > 180

\* Math.abs(nextPoint.lon - point.lon) > 180
IsDateLineWrap(lon, nextLon) == Abs(nextLon - lon) > 180

\* The for loop over screenPoints and the final segment after it
RECURSIVE SegmentLoop(_, _, _, _)
SegmentLoop(screenPoints, i, segments, currentSegment) ==
  IF i > Len(screenPoints)
  THEN IF Len(currentSegment) > 1 THEN Append(segments, currentSegment) ELSE segments
  ELSE LET pushed == Append(currentSegment, i)
       IN IF i < Len(screenPoints)
               /\ IsDateLineWrap(screenPoints[i], screenPoints[i + 1])
          THEN SegmentLoop(screenPoints, i + 1,
                           IF Len(pushed) > 1 THEN Append(segments, pushed) ELSE segments,
                           <<>>)
          ELSE SegmentLoop(screenPoints, i + 1, segments, pushed)

\* One entry of orbitPathsData: null for an empty path
orbitPathsData(path) ==
  IF Len(path) = 0 THEN None
  ELSE LET screenPoints == [i \in 1..Len(path) |-> WrapLon(path[i])]
       IN [k |-> "paths", screenPoints |-> screenPoints,
           segments |-> SegmentLoop(screenPoints, 1, <<>>, <<>>)]

SegmentsInit ==
  /\ callIn \in [path : UNION {[1..n -> LonSet] : n \in 0..MaxPathLen}]
  /\ callOut = None
  /\ satellites = <<>> /\ userOrbits = <<>> /\ orbitControl = None
  /\ maneuverHistory = <<>> /\ applied = <<>>
  /\ addError = None /\ adding = FALSE /\ lastLoad = None
  /\ cdmData = <<>> /\ autoAlertShown = {} /\ detectedCollisionRisks = <<>>
  /\ detectPending = FALSE
  /\ aiSuggestedManeuver = None /\ orbitControlCollisionRisk = None /\ timers = {}
  /\ prefilled = None
  /\ demoMode = FALSE /\ spaceWeatherThreats = <<>> /\ demoTimers = {}
  /\ positionDue = 0
  /\ lastStateRef = <<>> /\ hasEmergency = FALSE /\ requests = <<>>
  /\ collapsePending = FALSE
  /\ wallNow = 0 /\ simMinutes = 0 /\ simRunning = FALSE /\ simSpeed = 10 /\ simDate = 0
  /\ raf = None /\ effectPending = FALSE /\ jumped = FALSE /\ lastTick = None
  /\ lastRead = None
  /\ tlePhase = "idle" /\ tleIn = None /\ tleOut = None /\ tleDec = None
  /\ riskIn = None /\ riskOut = None

\* The memo runs for the orbit path handed to the map
RenderOrbitPaths ==
  /\ callOut = None
  /\ callOut' = [data |-> orbitPathsData(callIn.path)]
  /\ UNCHANGED <<callIn, notCall>>

SegmentsNext == RenderOrbitPaths

(***************************************************************************)
(* Conjunction detection: the auto-detect effect of App.  Miss distances   *)
(* are in tenths of a km, times to TCA in minutes from now.                 *)
(***************************************************************************)
MaxFeed == 2

\* An absent field of a conjunction record, and an object without NORAD id
Absent == 0 - 1
NoId == 0

\* The records of the feed: object ids, missDistanceKm (a number or absent)
\* and tca (minutes from now, or absent)
ConjunctionSet ==
  [object1Id : {25544, 99999}, object2Id : {34454, NoId},
   missDistanceKm : {Absent, 0, 4, 30}, tca : {Absent, 30}]

\* parseFloat(firstVal(conj, ['missDistanceKm', 'MISS_DISTANCE']) || '999'):
\* the number 0 is falsy and gives way to '999'
MissDistKm(conj) ==
  IF conj.missDistanceKm = Absent \/ conj.missDistanceKm = 0 THEN 9990
  ELSE conj.missDistanceKm

\* parseFloat(firstVal(conj, ['relativeSpeedKmS', 'RELATIVE_SPEED']) || '7.5')
RelVel == 75

\* The forEach body for one record: the risks it pushes
RisksOf(conj, trackedNoradIds, shown) ==
  IF conj.object1Id = NoId \/ conj.object2Id = NoId THEN <<>>
  ELSE IF conj.object1Id \notin trackedNoradIds /\ conj.object2Id \notin trackedNoradIds
    THEN <<>>
  ELSE IF conj.tca = Absent THEN <<>>
  ELSE LET riskLevel == assessRiskLevel(MissDistKm(conj), Abs(conj.tca))
           riskId == <<conj.object1Id, conj.object2Id, conj.tca>>
       IN IF riskLevel \in {"HIGH", "CRITICAL"} /\ riskId \notin shown
          THEN <<[targetId |-> IF conj.object1Id \in trackedNoradIds
                               THEN conj.object2Id ELSE conj.object1Id,
                  missDistanceKm |-> MissDistKm(conj),
                  tcaDate |-> conj.tca,
                  relativeVelocityKmS |-> RelVel,
                  probability |->
                    calculateCollisionProbability(Fin(MissDistKm(conj) * 10),
                                                  RelVel, 1, 1),
                  riskLevel |-> riskLevel]>>
          ELSE <<>>

RECURSIVE Risks(_, _, _)
Risks(feed, trackedNoradIds, shown) ==
  IF feed = <<>> THEN <<>>
  ELSE RisksOf(Head(feed), trackedNoradIds, shown)
         \o Risks(Tail(feed), trackedNoradIds, shown)

\* The risk ids the effect hands to setAutoAlertShown
RiskIds(feed, trackedNoradIds) ==
  {<<feed[i].object1Id, feed[i].object2Id, feed[i].tca>> :
     i \in {j \in 1..Len(feed) : RisksOf(feed[j], trackedNoradIds, {}) # <<>>}}

DetectInit ==
  /\ cdmData = <<>> /\ autoAlertShown = {} /\ detectedCollisionRisks = <<>>
  /\ detectPending = FALSE
  /\ aiSuggestedManeuver = None /\ orbitControlCollisionRisk = None /\ timers = {}
  /\ prefilled = None
  /\ demoMode = FALSE /\ spaceWeatherThreats = <<>> /\ demoTimers = {}
  /\ positionDue = 0
  /\ lastStateRef = <<>> /\ hasEmergency = FALSE /\ requests = <<>>
  /\ collapsePending = FALSE
  /\ satellites = FallbackSatellites /\ userOrbits = <<>>
  /\ orbitControl = None /\ maneuverHistory = <<>> /\ applied = <<>>
  /\ addError = None /\ adding = FALSE /\ lastLoad = None
  /\ callIn = None /\ callOut = None
  /\ wallNow = 0 /\ simMinutes = 0 /\ simRunning = FALSE /\ simSpeed = 10 /\ simDate = 0
  /\ raf = None /\ effectPending = FALSE /\ jumped = FALSE /\ lastTick = None
  /\ lastRead = None
  /\ tlePhase = "idle" /\ tleIn = None /\ tleOut = None /\ tleDec = None
  /\ riskIn = None /\ riskOut = None

\* useConjunctions: the fetch resolves and setData hands the feed to App
LoadConjunctions ==
  /\ cdmData = <<>>
  /\ \E n \in 1..MaxFeed : \E feed \in [1..n -> ConjunctionSet] : cdmData' = feed
  /\ detectPending' = TRUE
  /\ UNCHANGED <<autoAlertShown, detectedCollisionRisks, notDetect>>

\* One run of the auto-detect effect; it is due again when it changed
\* autoAlertShown, one of its dependencies
AutoDetect ==
  /\ detectPending
  /\ IF cdmData = <<>> \/ satellites = <<>>
     THEN /\ detectPending' = FALSE
          /\ UNCHANGED <<autoAlertShown, detectedCollisionRisks>>
     ELSE LET trackedNoradIds == {satellites[i].noradId : i \in 1..Len(satellites)}
              risks == Risks(cdmData, trackedNoradIds, autoAlertShown)
              shown == autoAlertShown
                         \cup (IF risks = <<>> THEN {}
                               ELSE RiskIds(cdmData, trackedNoradIds) \ autoAlertShown)
          IN /\ detectedCollisionRisks' = risks
             /\ autoAlertShown' = shown
             /\ detectPending' = (shown # autoAlertShown)
  /\ UNCHANGED <<cdmData, notDetect>>

DetectNext == LoadConjunctions \/ AutoDetect

(***************************************************************************)
(* Demo mode: the demo effect of App, its timers, and the position         *)
(* interval.  Time is counted in seconds.                                   *)
(***************************************************************************)
\* The delays of demoCollisionTimer and demoWeatherTimer, and the period of
\* the position interval, in seconds
DemoCollisionDelay == 2
DemoWeatherDelay == 5
PositionPeriod == 2

\* demoRisk; the target 'demo_debris_99999' by its number
DemoRisk ==
  [targetId |-> 99999, missDistanceKm |-> 4, tcaDate |-> 8,
   relativeVelocityKmS |-> 78,
   probability |-> calculateCollisionProbability(Fin(40), 78, 1, 1),
   riskLevel |-> "CRITICAL"]

\* demoWeatherThreat
DemoWeatherThreat ==
  [eventType |-> "Coronal Mass Ejection (CME)", severity |-> "Critical"]

\* The maneuver the demo hands to handleOpenOrbitControl: 7 km up
DemoSuggestion ==
  [altitudeChange |-> 7000, inclinationChange |-> 0, raanChange |-> 0,
   eccentricityChange |-> 0]

\* The feeds of the demo: none, or one conjunction of the ISS rated CRITICAL
DemoFeeds ==
  {<<>>, <<[object1Id |-> 25544, object2Id |-> 34454, missDistanceKm |-> 4,
            tca |-> 30]>>}

DemoInit ==
  /\ cdmData \in DemoFeeds /\ autoAlertShown = {} /\ detectedCollisionRisks = <<>>
  /\ detectPending = (cdmData # <<>>)
  /\ aiSuggestedManeuver = None /\ orbitControlCollisionRisk = None /\ timers = {}
  /\ prefilled = None
  /\ demoMode = FALSE /\ spaceWeatherThreats = <<>> /\ demoTimers = {}
  /\ positionDue = PositionPeriod
  /\ lastStateRef = <<>> /\ hasEmergency = FALSE /\ requests = <<>>
  /\ collapsePending = FALSE
  /\ satellites \in {FallbackSatellites, <<>>} /\ userOrbits = <<>>
  /\ orbitControl = None /\ maneuverHistory = <<>> /\ applied = <<>>
  /\ addError = None /\ adding = FALSE /\ lastLoad = None
  /\ callIn = None /\ callOut = None
  /\ wallNow = 0 /\ simMinutes = 0 /\ simRunning = FALSE /\ simSpeed = 10 /\ simDate = 0
  /\ raf = None /\ effectPending = FALSE /\ jumped = FALSE /\ lastTick = None
  /\ lastRead = None
  /\ tlePhase = "idle" /\ tleIn = None /\ tleOut = None /\ tleDec = None
  /\ riskIn = None /\ riskOut = None

\* The timers the demo effect sets when it runs with demo mode on; its
\* cleanup has cleared the two of the run before
DemoEffectTimers(on, closureSatellites) ==
  IF on
  THEN {[timer |-> "collision", due |-> DemoCollisionDelay,
         satellites |-> closureSatellites],
        [timer |-> "weather", due |-> DemoWeatherDelay,
         satellites |-> closureSatellites]}
  ELSE {}

\* The demo mode switch is flipped; the demo effect runs
ToggleDemoMode ==
  /\ demoMode' = ~demoMode
  /\ demoTimers' = DemoEffectTimers(~demoMode, satellites)
  /\ IF demoMode
     THEN detectedCollisionRisks' = <<>> /\ spaceWeatherThreats' = <<>>
     ELSE UNCHANGED <<detectedCollisionRisks, spaceWeatherThreats>>
  /\ UNCHANGED <<positionDue, cdmData, autoAlertShown, detectPending, appVars,
                 tleVars, riskVars, clockVars, loadVars, callVars, panelVars,
                 assistVars>>

\* One second passes; a callback that is due runs first.  The position
\* interval is set only while satellites are tracked.
SecondPasses ==
  /\ satellites = <<>> \/ positionDue > 0
  /\ \A t \in demoTimers : t.due > 0
  /\ positionDue' = IF satellites = <<>> THEN positionDue ELSE positionDue - 1
  /\ demoTimers' = {[t EXCEPT !.due = t.due - 1] : t \in demoTimers}
  /\ UNCHANGED <<demoMode, spaceWeatherThreats, detectVars, appVars, tleVars,
                 riskVars, clockVars, loadVars, callVars, panelVars, assistVars>>

\* The position interval runs: setSatellites hands over a new array, and the
\* commit runs the demo effect and then the auto-detect effect, both of which
\* depend on satellites.  Of their calls of setDetectedCollisionRisks the
\* last one counts.
PositionUpdate ==
  /\ satellites # <<>>
  /\ positionDue = 0
  /\ positionDue' = PositionPeriod
  /\ demoTimers' = DemoEffectTimers(demoMode, satellites)
  /\ spaceWeatherThreats' = IF demoMode THEN spaceWeatherThreats ELSE <<>>
  /\ LET trackedNoradIds == {satellites[i].noradId : i \in 1..Len(satellites)}
         risks == Risks(cdmData, trackedNoradIds, autoAlertShown)
         shown == autoAlertShown
                    \cup (IF risks = <<>> THEN {}
                          ELSE RiskIds(cdmData, trackedNoradIds) \ autoAlertShown)
     IN IF cdmData = <<>>
        THEN /\ detectedCollisionRisks' =
                  IF demoMode THEN detectedCollisionRisks ELSE <<>>
             /\ UNCHANGED <<autoAlertShown, detectPending>>
        ELSE /\ detectedCollisionRisks' = risks
             /\ autoAlertShown' = shown
             /\ detectPending' = (detectPending \/ shown # autoAlertShown)
  /\ UNCHANGED <<demoMode, cdmData, appVars, tleVars, riskVars, clockVars, loadVars,
                 callVars, panelVars, assistVars>>

\* demoCollisionTimer runs: the risk is shown, and a further timer, which no
\* cleanup clears, is set to open the panel
DemoCollisionTimerFires ==
  /\ \E t \in demoTimers :
       /\ t.timer = "collision" /\ t.due = 0
       /\ demoTimers' = demoTimers \ {t}
       /\ IF t.satellites = <<>>
          THEN UNCHANGED <<detectedCollisionRisks, timers>>
          ELSE /\ detectedCollisionRisks' = <<DemoRisk>>
               /\ timers' = timers \cup {[satellites |-> t.satellites,
                                          satelliteId |-> t.satellites[1].id,
                                          collisionRisk |-> DemoRisk,
                                          suggestedManeuver |-> DemoSuggestion]}
  /\ UNCHANGED <<demoMode, spaceWeatherThreats, positionDue, cdmData, autoAlertShown,
                 detectPending, appVars, tleVars, riskVars, clockVars, loadVars,
                 callVars, aiSuggestedManeuver, orbitControlCollisionRisk, prefilled,
                 assistVars>>

\* demoWeatherTimer runs
DemoWeatherTimerFires ==
  /\ \E t \in demoTimers :
       /\ t.timer = "weather" /\ t.due = 0
       /\ demoTimers' = demoTimers \ {t}
       /\ spaceWeatherThreats' = IF t.satellites = <<>> THEN spaceWeatherThreats
                                 ELSE <<DemoWeatherThreat>>
  /\ UNCHANGED <<demoMode, positionDue, detectVars, appVars, tleVars, riskVars,
                 clockVars, loadVars, callVars, panelVars, assistVars>>

DemoNext ==
  \/ ToggleDemoMode
  \/ SecondPasses
  \/ PositionUpdate
  \/ DemoCollisionTimerFires
  \/ DemoWeatherTimerFires
  \/ OpenTimerFires
  \/ AutoDetect
  \/ ClosePanel

(***************************************************************************)
(* The assistant's automatic requests: the auto-trigger effect of          *)
(* AssistantPanel                                                          *)
(***************************************************************************)
MaxRequests == 3

\* A risk the auto-detect effect found in the feed
FeedRisk ==
  [targetId |-> 34454, missDistanceKm |-> 4, tcaDate |-> 30,
   relativeVelocityKmS |-> 75,
   probability |-> calculateCollisionProbability(Fin(40), 75, 1, 1),
   riskLevel |-> "HIGH"]

\* A threat handleThreatDetected added
StormThreat == [eventType |-> "Geomagnetic Storm", severity |-> "High"]

RiskLists == {<<>>, <<DemoRisk>>, <<FeedRisk>>}
ThreatLists ==
  {<<>>, <<DemoWeatherThreat>>, <<StormThreat>>, <<DemoWeatherThreat, StormThreat>>}

\* riskKey and threatKey
RiskKey(risk) == <<"collision", risk.targetId, risk.missDistanceKm, risk.tcaDate>>
ThreatKey(threat) == <<"weather", threat.eventType>>

AssistInit ==
  /\ lastStateRef = <<>> /\ hasEmergency = FALSE /\ requests = <<>>
  /\ collapsePending = FALSE
  /\ detectedCollisionRisks = <<>> /\ spaceWeatherThreats = <<>>
  /\ cdmData = <<>> /\ autoAlertShown = {} /\ detectPending = FALSE
  /\ aiSuggestedManeuver = None /\ orbitControlCollisionRisk = None /\ timers = {}
  /\ prefilled = None
  /\ demoMode = FALSE /\ demoTimers = {} /\ positionDue = 0
  /\ satellites = FallbackSatellites /\ userOrbits = <<>>
  /\ orbitControl = None /\ maneuverHistory = <<>> /\ applied = <<>>
  /\ addError = None /\ adding = FALSE /\ lastLoad = None
  /\ callIn = None /\ callOut = None
  /\ wallNow = 0 /\ simMinutes = 0 /\ simRunning = FALSE /\ simSpeed = 10 /\ simDate = 0
  /\ raf = None /\ effectPending = FALSE /\ jumped = FALSE /\ lastTick = None
  /\ lastRead = None
  /\ tlePhase = "idle" /\ tleIn = None /\ tleOut = None /\ tleDec = None
  /\ riskIn = None /\ riskOut = None

\* One run of the auto-trigger effect with the state buildState returns:
\* the key it asks about (<<>> for none), and whether it sets the timer
AutoTrigger(risks, threats, ref, emergency) ==
  IF risks # <<>> /\ ref # RiskKey(risks[1])
       /\ risks[1].riskLevel \in {"CRITICAL", "HIGH"}
  THEN [ask |-> RiskKey(risks[1]), collapse |-> FALSE]
  ELSE IF threats # <<>> /\ ref # ThreatKey(threats[Len(threats)])
            /\ threats[Len(threats)].severity \in {"Critical", "High"}
  THEN [ask |-> ThreatKey(threats[Len(threats)]), collapse |-> FALSE]
  ELSE [ask |-> <<>>, collapse |-> emergency /\ risks = <<>> /\ threats = <<>>]

\* What a run of the effect leaves behind
RunAutoTrigger(risks, threats, asked) ==
  LET run == AutoTrigger(risks, threats, lastStateRef, hasEmergency)
  IN /\ lastStateRef' = IF run.ask # <<>> THEN run.ask ELSE lastStateRef
     /\ hasEmergency' = (hasEmergency \/ run.ask # <<>>)
     /\ collapsePending' = (collapsePending \/ run.collapse)
     /\ requests' = IF run.ask # <<>> THEN Append(asked, run.ask) ELSE asked

\* The threats App shows change (detection, demo mode, the space-weather
\* monitor); App renders with a new buildState and the effect runs
ThreatsChange ==
  /\ \E risks \in RiskLists, threats \in ThreatLists :
       /\ <<risks, threats>> # <<detectedCollisionRisks, spaceWeatherThreats>>
       /\ detectedCollisionRisks' = risks
       /\ spaceWeatherThreats' = threats
       /\ RunAutoTrigger(risks, threats, <<>>)
  /\ UNCHANGED <<cdmData, autoAlertShown, detectPending, demoMode, demoTimers,
                 positionDue, appVars, tleVars, riskVars, clockVars, loadVars,
                 callVars, panelVars>>

\* App renders again with the threats unchanged (a position update, a tick
\* of the clock): buildState is a new function and the effect runs
AppRenders ==
  /\ Len(requests) < MaxRequests
  /\ RunAutoTrigger(detectedCollisionRisks, spaceWeatherThreats, requests)
  /\ UNCHANGED <<detectVars, demoVars, appVars, tleVars, riskVars, clockVars,
                 loadVars, callVars, panelVars>>

\* The 3 s timer runs: setHasEmergency(false), setCollapsed(true)
CollapseTimerFires ==
  /\ collapsePending
  /\ collapsePending' = FALSE
  /\ hasEmergency' = FALSE
  /\ UNCHANGED <<lastStateRef, requests, detectVars, demoVars, appVars, tleVars,
                 riskVars, clockVars, loadVars, callVars, panelVars>>

AssistNext == ThreatsChange \/ AppRenders \/ CollapseTimerFires

(***************************************************************************)
(* The miss distance of a CDM item on its way from the feed to the risk    *)
(* assessment.  Kilometre values are in tenths of a km, metre values in    *)
(* metres.                                                                  *)
(***************************************************************************)
\* The items of the feed: each field a number, or absent
CdmItemSet ==
  [missDistanceKm : {Absent, 0, 4, 20}, missDistanceMeters : {Absent, 0, 400, 2000},
   MISS_DISTANCE : {Absent, 0, 400, 2000}]

\* normalizeCdmItem, the miss distance of its result: missDistanceKm, else the
\* number in MISS_DISTANCE as it stands, else missDistanceMeters / 1000
normalizeCdmItem(d) ==
  [missDistanceKm |->
     IF d.missDistanceKm # Absent THEN d.missDistanceKm
     ELSE IF d.MISS_DISTANCE # Absent THEN d.MISS_DISTANCE * 10
     ELSE IF d.missDistanceMeters # Absent THEN d.missDistanceMeters \div 100
     ELSE Absent,
   raw |-> d]

\* useConjunctions, the map over the array fetchConjunctions resolved with
withSeverity(it) ==
  LET mdKm == it.missDistanceKm
      mdMeters == IF mdKm # Absent THEN mdKm * 100 ELSE it.raw.MISS_DISTANCE
  IN [missDistanceKm |-> mdKm, missDistanceMeters |-> mdMeters, raw |-> it.raw]

NormalizeInit ==
  /\ callIn \in CdmItemSet
  /\ callOut = None
  /\ satellites = <<>> /\ userOrbits = <<>> /\ orbitControl = None
  /\ maneuverHistory = <<>> /\ applied = <<>>
  /\ addError = None /\ adding = FALSE /\ lastLoad = None
  /\ cdmData = <<>> /\ autoAlertShown = {} /\ detectedCollisionRisks = <<>>
  /\ detectPending = FALSE
  /\ aiSuggestedManeuver = None /\ orbitControlCollisionRisk = None /\ timers = {}
  /\ prefilled = None
  /\ demoMode = FALSE /\ spaceWeatherThreats = <<>> /\ demoTimers = {}
  /\ positionDue = 0
  /\ lastStateRef = <<>> /\ hasEmergency = FALSE /\ requests = <<>>
  /\ collapsePending = FALSE
  /\ wallNow = 0 /\ simMinutes = 0 /\ simRunning = FALSE /\ simSpeed = 10 /\ simDate = 0
  /\ raf = None /\ effectPending = FALSE /\ jumped = FALSE /\ lastTick = None
  /\ lastRead = None
  /\ tlePhase = "idle" /\ tleIn = None /\ tleOut = None /\ tleDec = None
  /\ riskIn = None /\ riskOut = None

\* fetchConjunctions maps normalizeCdmItem over the answer
NormalizeItem ==
  /\ callOut = None
  /\ callOut' = [stage |-> "normalized", item |-> normalizeCdmItem(callIn)]
  /\ UNCHANGED <<callIn, notCall>>

\* useConjunctions hands the items to App
UseConjunctions ==
  /\ callOut # None /\ callOut.stage = "normalized"
  /\ callOut' = [stage |-> "delivered", item |-> withSeverity(callOut.item)]
  /\ UNCHANGED <<callIn, notCall>>

\* The auto-detect effect reads the miss distance it assesses the risk with
ReadMissDistance ==
  /\ callOut # None /\ callOut.stage = "delivered"
  /\ callOut' = [stage |-> "assessed", item |-> callOut.item,
                 missDistKm |-> MissDistKm(callOut.item)]
  /\ UNCHANGED <<callIn, notCall>>

NormalizeNext == NormalizeItem \/ UseConjunctions \/ ReadMissDistance

(***************************************************************************)
(* Specifications                                                          *)
(***************************************************************************)
SpecTLE == TleInit /\ [][TleNext]_vars

SpecRisk == RiskInit /\ [][RiskNext]_vars

SpecClock == ClockInit /\ [][ClockNext]_vars

SpecApp == AppInit /\ [][AppNext]_vars

SpecDecode == DecodeInit /\ [][DecodeNext]_vars

SpecPlan == AppInit /\ [][PlanNext]_vars

SpecIds == AppInit /\ [][IdsNext]_vars

SpecLoad == AppInit /\ [][LoadNext]_vars

\* A timer that is due runs
SpecClick == AppInit /\ [][LoadNext]_vars /\ WF_vars(OpenTimerFires)

SpecAvoid == AvoidInit /\ [][AvoidNext]_vars

SpecProbability == ProbabilityInit /\ [][ProbabilityNext]_vars

SpecPath == PathInit /\ [][PathNext]_vars

SpecSegments == SegmentsInit /\ [][SegmentsNext]_vars

\* React runs an effect after every commit that changed one of its dependencies
SpecDetect == DetectInit /\ [][DetectNext]_vars /\ WF_vars(AutoDetect)

SpecAssist == AssistInit /\ [][AssistNext]_vars

SpecNormalize == NormalizeInit /\ [][NormalizeNext]_vars

\* Time passes, and a timer, an interval or an effect that is due runs
SpecDemo ==
  /\ DemoInit /\ [][DemoNext]_vars
  /\ WF_vars(SecondPasses) /\ WF_vars(PositionUpdate)
  /\ WF_vars(DemoCollisionTimerFires) /\ WF_vars(DemoWeatherTimerFires)
  /\ WF_vars(OpenTimerFires) /\ WF_vars(AutoDetect)

(***************************************************************************)
(* Claims                                                                  *)
(***************************************************************************)
Within(x, y, tol) == IsFinite(x) /\ IsFinite(y) /\ Abs(x.v - y.v) <= tol

\* C1: decoding the lines createTLEFromKeplerian produced, with either
\* fixed-column decoder, gives back inclination, RAAN, eccentricity, argument
\* of perigee, mean anomaly and mean motion within 1e-3 of the encoded values.
C1_RoundTrip ==
  tlePhase = "decoded" =>
    /\ Within(tleDec.inclinationDeg, tleIn.inclinationDeg, 100)
    /\ Within(tleDec.raanDeg, tleIn.raanDeg, 100)
    /\ Within(tleDec.eccentricity, tleIn.eccentricity, 10000)
    /\ Within(tleDec.argPerigeeDeg, tleIn.argumentOfPerigeeDeg, 100)
    /\ Within(tleDec.meanAnomalyDeg, tleIn.meanAnomalyDeg, 100)
    /\ Within(tleDec.meanMotion, tleIn.meanMotionRevPerDay, 100000)

Severity(level) ==
  CASE level = "LOW" -> 0 [] level = "MODERATE" -> 1 [] level = "HIGH" -> 2
    [] level = "CRITICAL" -> 3

\* The tier table of the specification, in the model's units
RiskTable(d, t) ==
  CASE t < 60 ->
         (CASE d < 10 -> "CRITICAL" [] d >= 10 /\ d < 50 -> "HIGH"
            [] d >= 50 /\ d < 100 -> "MODERATE" [] d >= 100 -> "LOW")
    [] t >= 60 /\ t < 1440 ->
         (CASE d < 5 -> "CRITICAL" [] d >= 5 /\ d < 20 -> "HIGH"
            [] d >= 20 /\ d < 50 -> "MODERATE" [] d >= 50 -> "LOW")
    [] t >= 1440 ->
         (CASE d < 5 -> "HIGH" [] d >= 5 /\ d < 10 -> "MODERATE" [] d >= 10 -> "LOW")

\* C2: assessRiskLevel returns exactly the tier of the specified table, for
\* every miss distance and every time to TCA.
C2_RiskTable ==
  riskOut # None => riskOut.level = RiskTable(riskIn.d, riskIn.t)

C2_Witness ==
  riskOut # None /\ riskIn.t = 1440 /\ riskIn.d = 4 /\ riskOut.level = "HIGH"

\* C3: for a fixed time to TCA, a larger miss distance never gives a more
\* severe tier than a smaller one.
C3_Monotone ==
  riskOut # None =>
    \A d2 \in MissDistances :
      riskIn.d <= d2 => Severity(assessRiskLevel(d2, riskIn.t)) <= Severity(riskOut.level)

C3_Witness ==
  riskOut # None /\ riskIn.t = 60 /\ riskIn.d = 19 /\ riskOut.level = "HIGH"
    /\ assessRiskLevel(20, riskIn.t) = "MODERATE"

\* The run of applyManeuver a step performs, when it performs one
IsManeuverStep == Len(applied') = Len(applied) + 1
ManeuverOfStep == applied'[Len(applied')]

\* The requests the specification wants rejected: a new semi-major axis that
\* is not positive, or an eccentricity taken outside [0, 1)
Rejectable(m) ==
  \/ IsFinite(m.newSemiMajorAxis) /\ m.newSemiMajorAxis.v <= 0
  \/ /\ IsFinite(m.elements.eccentricity)
     /\ LET e == m.elements.eccentricity.v + m.adjustments.eccentricityChange
        IN e < 0 \/ e >= 10000000

\* C4: a maneuver whose altitude change makes the new semi-major axis
\* non-positive, or whose eccentricity change takes the eccentricity outside
\* [0, 1), is rejected: the satellites' TLEs, the orbits and the maneuver
\* history stay exactly as they were.
C4_ManeuverRejected ==
  [][(IsManeuverStep /\ Rejectable(ManeuverOfStep))
       => UNCHANGED <<satellites, userOrbits, maneuverHistory>>]_vars

\* C5: a step that applies a maneuver puts exactly one entry in front of the
\* maneuver history, whose old TLE is the TLE the satellite held before the
\* step and whose new TLE is the TLE it holds after it, replaces both lines of
\* that satellite in the same step and leaves every other satellite and every
\* earlier entry as it was; no other step changes the history.
C5_ManeuverLog ==
  [][IF IsManeuverStep /\ ManeuverOfStep.found
     THEN LET m == ManeuverOfStep
              before == FindById(satellites, m.satelliteId)
              after == FindById(satellites', m.satelliteId)
              entry == Head(maneuverHistory')
          IN /\ Len(maneuverHistory') = Len(maneuverHistory) + 1
             /\ Tail(maneuverHistory') = maneuverHistory
             /\ entry.satelliteId = m.satelliteId
             /\ entry.oldTle1 = before.tle1 /\ entry.oldTle2 = before.tle2
             /\ entry.newTle1 = after.tle1 /\ entry.newTle2 = after.tle2
             /\ after.tle1 = m.line1 /\ after.tle2 = m.line2
             /\ Len(satellites') = Len(satellites)
             /\ \A i \in 1..Len(satellites) :
                  satellites[i].id # m.satelliteId => satellites'[i] = satellites[i]
     ELSE maneuverHistory' = maneuverHistory]_vars

\* Two maneuvers are logged, the older one for a satellite that was removed
\* since, the newer one on top of it
C5_Witness ==
  /\ Len(maneuverHistory) = 2 /\ Len(applied) = 2
  /\ ~HasId(satellites, maneuverHistory[2].satelliteId)
  /\ maneuverHistory[1].newTle2 = applied[2].line2
  /\ maneuverHistory[2].newTle2 = applied[1].line2
  /\ maneuverHistory[1].oldTle2 # maneuverHistory[1].newTle2

AltitudeOnly(adjustments) ==
  /\ adjustments.altitudeChange # 0
  /\ [adjustments EXCEPT !.altitudeChange = 0] = NoAdjustments

InRange(x, bound) == IsFinite(x) /\ x.v >= 0 /\ x.v < bound

\* C6: a maneuver whose only non-zero adjustment is the altitude change gives
\* new elements whose inclination, RAAN, eccentricity, argument of perigee and
\* mean anomaly equal the ones decoded from the satellite, for every
\* eccentricity in [0, 1) and every angle in [0, 360).
C6_AltitudeOnlyKeepsShape ==
  \A i \in 1..Len(applied) :
    LET m == applied[i]
    IN (/\ AltitudeOnly(m.adjustments)
        /\ InRange(m.elements.eccentricity, 10000000)
        /\ InRange(m.elements.raanDeg, 36000000)
        /\ InRange(m.elements.argPerigeeDeg, 36000000)
        /\ InRange(m.elements.meanAnomalyDeg, 36000000))
       => /\ m.newElements.inclinationDeg = m.elements.inclinationDeg
          /\ m.newElements.raanDeg = m.elements.raanDeg
          /\ m.newElements.eccentricity = m.elements.eccentricity
          /\ m.newElements.argumentOfPerigeeDeg = m.elements.argPerigeeDeg
          /\ m.newElements.meanAnomalyDeg = m.elements.meanAnomalyDeg

\* C7: two applications of the same adjustments to the same satellite with the
\* same TLE give the same new elements and the same encoded lines.
C7_Deterministic ==
  \A i, j \in 1..Len(applied) :
    (applied[i].base = applied[j].base /\ applied[i].adjustments = applied[j].adjustments)
      => /\ applied[i].newElements = applied[j].newElements
         /\ applied[i].line1 = applied[j].line1
         /\ applied[i].line2 = applied[j].line2

\* C8: a tick taken while the clock is running adds exactly simSpeed times the
\* elapsed seconds to the offset, and a tick taken while it is not running
\* leaves the offset as it was.
C8_TickLaw ==
  lastTick # None =>
    /\ lastTick.elapsed >= 0
    /\ IF lastTick.running
       THEN lastTick.after = lastTick.before + lastTick.speed * lastTick.elapsed
       ELSE lastTick.after = lastTick.before

\* C9: after jumpToNow the offset is 0 and the clock is paused, and stays so
\* until the next play or offset change.
C9_JumpToNowHolds == jumped => (simMinutes = 0 /\ ~simRunning)

\* C10: the instant used to position satellites and to centre trajectories is
\* the wall clock at that moment plus the offset.
C10_ViewInstantIsNowPlusOffset ==
  lastRead # None => lastRead.when = lastRead.wall + lastRead.offset * 30

\* The sum of the digit characters and the number of '-' characters of s
RECURSIVE DigitsAndMinus(_)
DigitsAndMinus(s) ==
  IF Len(s) = 0 THEN 0
  ELSE (IF IsDigit(Head(s)) THEN DigitVal(Head(s)) ELSE IF Head(s) = "-" THEN 1 ELSE 0)
         + DigitsAndMinus(Tail(s))

ChecksumLaw(line) ==
  /\ Len(line) >= 69
  /\ line[Len(line)] = DigitChar(DigitsAndMinus(SubSeq(line, Len(line) - 68, Len(line) - 1)) % 10)

\* C11: the final character of each line createTLEFromKeplerian returns is the
\* digit (sum of the digit characters + number of '-' characters) mod 10 of
\* the 68 characters that immediately precede it, for every catalog number
\* and every field value.
C11_ChecksumLaw ==
  tleOut # None => ChecksumLaw(tleOut.line1) /\ ChecksumLaw(tleOut.line2)

\* The same law for the catalog numbers of at most five digits
C11_FiveDigitChecksum ==
  (tleOut # None /\ tleIn.noradId < 100000) =>
     ChecksumLaw(tleOut.line1) /\ ChecksumLaw(tleOut.line2)

\* The element sets the specification calls invalid
InvalidElements(elements) ==
  \/ ~IsFinite(elements.eccentricity)
  \/ elements.eccentricity.v < 0 \/ elements.eccentricity.v >= 10000000
  \/ ~IsFinite(elements.meanMotionRevPerDay) \/ elements.meanMotionRevPerDay.v <= 0
  \/ ~IsFinite(elements.inclinationDeg) \/ ~IsFinite(elements.raanDeg)
  \/ ~IsFinite(elements.argumentOfPerigeeDeg) \/ ~IsFinite(elements.meanAnomalyDeg)

\* C12: encoding an element set whose eccentricity is outside [0, 1), whose
\* mean motion is not positive or one of whose angles is not finite fails and
\* produces no TLE lines.
C12_InvalidElementsRejected ==
  (tlePhase # "in" /\ InvalidElements(tleIn)) => tleOut = None

Malformed(lines) ==
  \/ Len(lines.line1) < 69 \/ Len(lines.line2) < 69
  \/ ~StartsWith(lines.line1, <<"1", " ">>)
  \/ ~StartsWith(lines.line2, <<"2", " ">>)

\* C13: decoding fails and yields no element set whenever either line is
\* shorter than 69 characters, line 1 does not start with "1 " or line 2 does
\* not start with "2 ", in generateOrbitPath, in parseFromTLE and in the Orbit
\* Control Panel.
C13_MalformedRejected ==
  (tlePhase = "decoded" /\ Malformed(tleOut)) => tleDec = Failed

\* C14: when a handler that loads a satellite reports a failure (the TLE was
\* missing, unparsable or not finite), the satellite collection and the orbits
\* are what they were before the handler ran.
C14_FailedLoadKeepsCollection ==
  (lastLoad # None /\ lastLoad.phase = "done" /\ lastLoad.failed)
    => lastLoad.after = lastLoad.before

\* C15: for every miss distance d >= 0 the suggested altitude change, from the
\* utility and from the panel's Auto-Calculate alike, is max(5, 5d) km when
\* d < 1, max(3, 2d) km when 1 <= d < 5, max(2, d) km when 5 <= d < 10 and
\* 1 km otherwise (tenths of a km here).
AvoidanceLaw(d) ==
  IF d < 10 THEN Max(50, 5 * d)
  ELSE IF d < 50 THEN Max(30, 2 * d)
  ELSE IF d < 100 THEN Max(20, d)
  ELSE 10

C15_AvoidanceTiers ==
  callOut # None => callOut.altitudeChangeKm = AvoidanceLaw(callIn.missDistanceKm)

\* The utility alone follows the tiers
C15_UtilityTiers ==
  (callOut # None /\ callOut.by = "utility")
    => callOut.altitudeChangeKm = AvoidanceLaw(callIn.missDistanceKm)

\* C16: calculateCollisionProbability returns a value in [0, 1] for every
\* miss distance, relative velocity and pair of radii, and exactly 1.0 when
\* the miss distance is at most the sum of the radii.
C16_ProbabilityBounds ==
  callOut # None =>
    /\ callOut.probability.k = "fin"
    /\ callOut.probability.v \in 0..ProbabilityOne
    /\ (callIn.missDistanceKm.k = "fin"
        /\ callIn.missDistanceKm.v <= callIn.primaryRadiusKm + callIn.secondaryRadiusKm)
         => callOut.probability = Fin(ProbabilityOne)

\* On finite miss distances both halves hold
C16_FiniteBounds ==
  (callOut # None /\ callIn.missDistanceKm.k = "fin") =>
    /\ callOut.probability.k = "fin"
    /\ callOut.probability.v \in 0..ProbabilityOne
    /\ (callIn.missDistanceKm.v <= callIn.primaryRadiusKm + callIn.secondaryRadiusKm)
         => callOut.probability = Fin(ProbabilityOne)

\* C17: a request with duration D and step S evaluates the propagator at
\* exactly floor(D / S) + 1 instants, the first at centre - D / 2 and each
\* next one S minutes later.  Stated for the requests whose loop ran to its
\* end.
RanToEnd == callOut # None /\ callOut.returned # None /\ callOut.m > callIn.duration

SampleInstants(D, S) == [i \in 1..((D \div S) + 1) |-> (0 - (D \div 2)) + (i - 1) * S]

C17_SampleCount ==
  RanToEnd => callOut.instants = SampleInstants(callIn.duration, callIn.stepMinutes)

\* generateEciTrack alone follows the law
C17_EciTrackSampleCount ==
  (RanToEnd /\ callIn.fn = "generateEciTrack")
    => callOut.instants = SampleInstants(callIn.duration, callIn.stepMinutes)

\* C18: if any evaluated sample has a non-finite latitude, longitude or
\* altitude, generateOrbitPath returns the empty sequence.
C18_NonFiniteDiscardsPath ==
  (callOut # None /\ callIn.fn = "generateOrbitPath" /\ callOut.returned # None
     /\ callOut.nonFinite)
    => callOut.returned.path = <<>>

\* C19: in the 2D segmentation the segment boundaries are exactly the
\* date-line jumps: within an emitted segment adjacent points are consecutive
\* path points whose wrapped longitudes differ by at most 180 degrees, and two
\* consecutive path points whose wrapped longitudes differ by at most 180
\* degrees are adjacent in one emitted segment.
Jump(screenPoints, i) == Abs(screenPoints[i + 1] - screenPoints[i]) > 180

AdjacentIn(segments, i) ==
  \E s \in 1..Len(segments) : \E j \in 1..(Len(segments[s]) - 1) :
    segments[s][j] = i /\ segments[s][j + 1] = i + 1

C19_SegmentsAtDateLine ==
  (callOut # None /\ callOut.data # None) =>
    LET screenPoints == callOut.data.screenPoints
        segments == callOut.data.segments
    IN /\ \A s \in 1..Len(segments) : \A j \in 1..(Len(segments[s]) - 1) :
            /\ segments[s][j + 1] = segments[s][j] + 1
            /\ ~Jump(screenPoints, segments[s][j])
       /\ \A i \in 1..(Len(screenPoints) - 1) :
            ~Jump(screenPoints, i) => AdjacentIn(segments, i)

\* A path cut at a date-line jump into two emitted segments
C19_Witness ==
  /\ callOut # None /\ callOut.data # None
  /\ Len(callOut.data.segments) = 2
  /\ Jump(callOut.data.screenPoints, 2)

\* C20: every conjunction of the feed that has a TCA, involves a tracked
\* satellite and whose miss distance (0 included) and time to TCA give HIGH or
\* CRITICAL is eventually in detectedCollisionRisks, as a CollisionRisk that
\* carries its miss distance.  Stated from the arrival of the feed, before any
\* alert was shown.
Qualifies(conj) ==
  /\ conj.tca # Absent
  /\ conj.missDistanceKm # Absent
  /\ \E i \in 1..Len(satellites) :
       satellites[i].noradId \in {conj.object1Id, conj.object2Id}
  /\ assessRiskLevel(conj.missDistanceKm, Abs(conj.tca)) \in {"HIGH", "CRITICAL"}

InFeed(conj) == \E i \in 1..Len(cdmData) : cdmData[i] = conj

Detected(conj) ==
  \E i \in 1..Len(detectedCollisionRisks) :
    /\ detectedCollisionRisks[i].missDistanceKm = conj.missDistanceKm
    /\ detectedCollisionRisks[i].tcaDate = conj.tca
    /\ detectedCollisionRisks[i].targetId \in {conj.object1Id, conj.object2Id}

C20_DetectionComplete ==
  \A conj \in ConjunctionSet :
    (InFeed(conj) /\ Qualifies(conj) /\ autoAlertShown = {}) ~> Detected(conj)

\* With both NORAD ids known and a miss distance other than 0 the risk is
\* detected
C20_DetectedWhenNonZero ==
  \A conj \in ConjunctionSet :
    (InFeed(conj) /\ Qualifies(conj) /\ autoAlertShown = {}
       /\ conj.missDistanceKm # 0
       /\ conj.object1Id # NoId /\ conj.object2Id # NoId) ~> Detected(conj)

\* C21: after a conjunction row was clicked, both TLEs were loaded and the
\* miss distance at TCA rates CRITICAL or HIGH, the Orbit Control Panel
\* eventually opens for the first object with that collision risk attached,
\* whether or not the object was tracked before the click.
ClickedHighRisk(id, d) ==
  /\ lastLoad # None /\ lastLoad.op = "conjunction" /\ lastLoad.phase = "done"
  /\ lastLoad.riskLevel \in {"CRITICAL", "HIGH"}
  /\ lastLoad.first = id /\ lastLoad.missDistanceKm = d

PanelOpenFor(id, d) ==
  /\ orbitControl # None /\ orbitControl.satellite.id = id
  /\ orbitControlCollisionRisk # None
  /\ orbitControlCollisionRisk.missDistanceKm = d

C21_PanelOpensAfterClick ==
  \A id \in {"sat_25544", "sat_11111"} : \A d \in MissAtTcaSet :
    ClickedHighRisk(id, d) ~> PanelOpenFor(id, d)

\* The panel does open when the first object was tracked before the click
C21_OpensWhenTrackedBefore ==
  \A id \in {"sat_25544", "sat_11111"} : \A d \in MissAtTcaSet :
    (ClickedHighRisk(id, d) /\ HasId(lastLoad.before[1], id)) ~> PanelOpenFor(id, d)

\* The click schedules the opening for CRITICAL and HIGH only
C21_NoOpeningBelowHigh ==
  \A t \in timers : t.collisionRisk.riskLevel \in {"CRITICAL", "HIGH"}

\* C22: once demo mode is on with a satellite tracked, and for as long as it
\* stays on, the simulated collision risk eventually shows in
\* detectedCollisionRisks, the simulated threat in spaceWeatherThreats, and
\* the panel eventually opens with the suggested maneuver, however the
\* position updates interleave.
DemoOn == demoMode /\ satellites # <<>>

DemoRiskShown ==
  \E i \in 1..Len(detectedCollisionRisks) : detectedCollisionRisks[i] = DemoRisk

DemoPanelOpen ==
  /\ orbitControl # None
  /\ orbitControl.adjustments = FromSuggestion(DemoSuggestion)
  /\ orbitControlCollisionRisk = DemoRisk

C22_DemoModeLiveness ==
  /\ DemoOn ~> (~demoMode \/ DemoRiskShown)
  /\ DemoOn ~> (~demoMode \/ spaceWeatherThreats = <<DemoWeatherThreat>>)
  /\ DemoOn ~> (~demoMode \/ DemoPanelOpen)

\* With satellites tracked the position interval runs every 2 s and each run
\* sets demoWeatherTimer anew, so that no run of the application shows the
\* simulated space-weather threat
C22_WeatherThreatNeverShown == spaceWeatherThreats = <<>>

\* C27: a HIGH or CRITICAL risk detected from the feed stays in
\* detectedCollisionRisks while the feed holds the conjunction, the satellite
\* is tracked and demo mode is off; neither autoAlertShown nor the position
\* updates nor the demo effect removes it.  (Feed and satellites do not
\* change in SpecDemo.)
FeedRisks == {detectedCollisionRisks[i] : i \in 1..Len(detectedCollisionRisks)} \ {DemoRisk}

C27_DetectedRiskStays ==
  [][(~demoMode /\ ~demoMode') =>
       \A r \in FeedRisks :
         \E i \in 1..Len(detectedCollisionRisks') : detectedCollisionRisks'[i] = r]_vars

\* C28: while demo mode is off, nothing that the demo effect scheduled takes
\* effect: the panel is not opened, no suggested maneuver is stored or
\* pre-filled, and no simulated threat is added.  (In SpecDemo only the demo's
\* timers open the panel.)
C28_NothingAfterDemoOff ==
  [][~demoMode =>
       /\ orbitControl = None => orbitControl' = None
       /\ orbitControl # None /\ orbitControl' # None => orbitControl' = orbitControl
       /\ aiSuggestedManeuver' \in {aiSuggestedManeuver, None}
       /\ (\E i \in 1..Len(detectedCollisionRisks') :
             detectedCollisionRisks'[i] = DemoRisk) => DemoRiskShown
       /\ spaceWeatherThreats' # <<>> => spaceWeatherThreats' = spaceWeatherThreats]_vars

\* C23: whichever accepted field carries the miss distance (missDistanceKm in
\* km, missDistanceMeters or MISS_DISTANCE in metres), the normalized record's
\* missDistanceKm is that distance in km, and the risk assessment uses that
\* same value.
\* The distance the item carries, in tenths of a km
CarriedKm(d) ==
  IF d.missDistanceKm # Absent THEN d.missDistanceKm
  ELSE IF d.missDistanceMeters # Absent THEN d.missDistanceMeters \div 100
  ELSE d.MISS_DISTANCE \div 100

\* Exactly one of the accepted fields is there
OneField(d) ==
  Cardinality({f \in {"missDistanceKm", "missDistanceMeters", "MISS_DISTANCE"} :
                 d[f] # Absent}) = 1

C23_MissDistanceInKm ==
  (OneField(callIn) /\ callOut # None) =>
     /\ callOut.item.missDistanceKm = CarriedKm(callIn)
     /\ callOut.stage = "assessed" => callOut.missDistKm = CarriedKm(callIn)

\* It is so for a distance other than 0 in missDistanceKm or missDistanceMeters
C23_KmAndMetersFields ==
  (OneField(callIn) /\ callOut # None /\ callIn.MISS_DISTANCE = Absent
     /\ CarriedKm(callIn) # 0) =>
     /\ callOut.item.missDistanceKm = CarriedKm(callIn)
     /\ callOut.stage = "assessed" => callOut.missDistKm = CarriedKm(callIn)

\* C24: executing an assistant plan, whatever its commands, changes no
\* satellite's TLE and adds nothing to maneuverHistory; a step that does either
\* is the panel's Apply Maneuver, for the satellite of the open panel.
TleOf(sats) == [i \in 1..Len(sats) |-> <<sats[i].id, sats[i].tle1, sats[i].tle2>>]

C24_OnlyApplyManeuverChangesTle ==
  [][(TleOf(satellites') # TleOf(satellites) \/ maneuverHistory' # maneuverHistory) =>
       /\ orbitControl # None /\ orbitControl' = None
       /\ Len(applied') = Len(applied) + 1
       /\ applied'[Len(applied')].satelliteId = orbitControl.satellite.id]_vars

\* A plan with jumpToNow and openOrbitControl with a suggested maneuver was
\* executed, the panel shows the suggestion, and every TLE is as it was
C24_Witness ==
  /\ jumped /\ prefilled # None /\ orbitControl # None
  /\ orbitControl.adjustments = FromSuggestion(CHOOSE sg \in SuggestionSet : TRUE)
  /\ TleOf(satellites) = TleOf(FallbackSatellites) /\ maneuverHistory = <<>>

\* C25: a suggested maneuver handed to handleOpenOrbitControl for a satellite
\* pre-fills only the panel which that call opens for that satellite, never a
\* panel opened for another satellite or opened by a later call.
C25_SuggestionForItsPanel ==
  prefilled # None =>
    orbitControl # None /\ prefilled.handedFor = orbitControl.satellite.id

\* The window object is emptied by the panel that takes the suggestion
C25_ConsumedOnce ==
  [][prefilled' # None /\ prefilled' # prefilled => aiSuggestedManeuver' = None]_vars

\* C26: while the threats shown are unchanged, each threat key causes at most
\* one automatic request, however often the application renders, also when a
\* collision risk and a space-weather threat are there together.
C26_OneRequestPerThreat ==
  \A i, j \in 1..Len(requests) : i # j => requests[i] # requests[j]

\* It is so when only collision risks or only space-weather threats are shown
C26_OneKindOfThreat ==
  (detectedCollisionRisks = <<>> \/ spaceWeatherThreats = <<>>) => Len(requests) <= 1

\* C29: the 2D segmentation is a partition of the path: the emitted segments,
\* one after the other, are the whole path in its order, so that every point
\* is in exactly one segment and none is dropped.
RECURSIVE Flatten(_)
Flatten(segments) ==
  IF segments = <<>> THEN <<>> ELSE Head(segments) \o Flatten(Tail(segments))

C29_SegmentsPartitionPath ==
  (callOut # None /\ callOut.data # None) =>
    Flatten(callOut.data.segments) = [i \in 1..Len(callOut.data.screenPoints) |-> i]

\* No point is emitted twice or out of order, and a point that is dropped has
\* a date-line jump, or an end of the path, on either side
C29_OnlyLonePointsDropped ==
  (callOut # None /\ callOut.data # None) =>
    LET screenPoints == callOut.data.screenPoints
        flat == Flatten(callOut.data.segments)
    IN /\ \A j \in 1..(Len(flat) - 1) : flat[j] < flat[j + 1]
       /\ \A i \in 1..Len(screenPoints) :
            (\A j \in 1..Len(flat) : flat[j] # i) =>
              /\ i = 1 \/ Jump(screenPoints, i - 1)
              /\ i = Len(screenPoints) \/ Jump(screenPoints, i)

\* C30: whatever satellites were loaded, added by NORAD id, added by orbital
\* parameters or removed, no two tracked satellites have the same id and no
\* two user orbits have the same id.
C30_UniqueIds ==
  /\ \A i, j \in 1..Len(satellites) : i # j => satellites[i].id # satellites[j].id
  /\ \A i, j \in 1..Len(userOrbits) : i # j => userOrbits[i].id # userOrbits[j].id

\* The ids are unique as long as nothing was added by orbital parameters
C30_UniqueCatalogIds ==
  (\A i \in 1..Len(satellites) : satellites[i].noradId # CustomNoradId) => C30_UniqueIds

=============================================================================
